---------------------------- MODULE Spec2Model ----------------------------
(***************************************************************************)
(* A model of the tiff66 IFD tree codec (src/tiff66.go, lines 1-1636):     *)
(* the primitive value accessors of a Field, the 8-byte header codec, the  *)
(* IFD table reader and writer, the image-data bookkeeping and the tree    *)
(* walker.                                                                 *)
(*                                                                         *)
(* Representation.  A byte is a number in 0..255 and a Go byte slice is a  *)
(* sequence of bytes; the Go index i is the sequence index i+1.  A uint32  *)
(* that is stored data (a field count, a value read from or written to a   *)
(* buffer) is a pair <<hi, lo>> of 16-bit halves, so that the full 32-bit  *)
(* range and its wrap-around are representable; a uint32 that is a         *)
(* position inside a buffer the model holds is a natural number.  A Go     *)
(* run-time panic (index or slice bounds out of range) is an outcome of    *)
(* its own: operators that can panic return a record with a panic flag.    *)
(***************************************************************************)
EXTENDS Integers, Sequences, FiniteSets, TLC

VARIABLES
    hbuf,     \* header codec: the caller's buffer
    hput,     \* header codec: arguments of the last PutHeader, or NoCall
    hres,     \* header codec: result of the last GetHeader, or NoCall
    field,    \* value codec: the Field under test
    lastPut,  \* value codec: the last Put<X> call, or NoCall
    lastGet,  \* value codec: the last <X> call and what it returned, or NoCall
    tree,     \* tree codec: the IFD tree handed to the serializer
    wres,     \* tree codec: what PutHeader + PutIFDTree did, or NoCall
    edits,    \* tree codec: the calls that changed the tree in place so far
    pbuf,     \* tree codec: the buffer handed to the parser
    pc,       \* tree codec: where the caller and the parser are
    ctx,      \* tree codec: slice, byte order, visited positions and maker
              \*   note data of the GetIFDTree call that is running
    outer,    \* tree codec: the suspended GetIFDTree calls, innermost last
    stack,    \* tree codec: the getIFDTreeIter calls that are running
    call,     \* tree codec: the getIFDTreeIter call being made, or NoCall
    hist,     \* tree codec: the IFD reads made so far in this parse
    pres      \* tree codec: what GetHeader + GetIFDTree returned, or NoCall

hdrVars == <<hbuf, hput, hres>>

dataVars == <<field, lastPut, lastGet>>

parseVars == <<pbuf, pc, ctx, outer, stack, call, hist, pres>>

treeVars == <<tree, wres, edits, parseVars>>

vars == <<hdrVars, dataVars, treeVars>>

NoCall == [kind |-> "none"]

LittleEndian == "LittleEndian"
BigEndian == "BigEndian"
NilOrder == "nil"
Orders == {LittleEndian, BigEndian}

Bytes == 0..255

(***************************************************************************)
(* 32-bit words as pairs of 16-bit halves.                                 *)
(***************************************************************************)
U32(n) == <<n \div 65536, n % 65536>>

N32(w) == w[1] * 65536 + w[2]

Add32(a, b) ==
    LET lo == a[2] + b[2]
        hi == a[1] + b[1] + (lo \div 65536)
    IN  <<hi % 65536, lo % 65536>>

Lt32(a, b) == a[1] < b[1] \/ (a[1] = b[1] /\ a[2] < b[2])

\* uint32(v) of a signed 32-bit v, and int32(w) of a word: two's complement.
Int32ToU32(v) == <<(v \div 65536) % 65536, v % 65536>>

U32ToInt32(w) ==
    IF w[1] >= 32768 THEN (w[1] - 65536) * 65536 + w[2] ELSE w[1] * 65536 + w[2]

\* uint16(v) of a signed 16-bit v and back; uint8(v) of a signed 8-bit v and back.
Int16ToU16(v) == v % 65536

U16ToInt16(u) == IF u >= 32768 THEN u - 65536 ELSE u

Int8ToU8(v) == v % 256

U8ToInt8(u) == IF u >= 128 THEN u - 256 ELSE u

(***************************************************************************)
(* encoding/binary's ByteOrder on a slice b taken at Go offset p (b[p:]).  *)
(* Each access panics unless the slice holds the bytes it touches.         *)
(***************************************************************************)
At(b, i) == b[i + 1]

\* b with the bytes of s stored from Go offset p on; the caller checked the range.
Store(b, p, s) ==
    [k \in 1..Len(b) |-> IF k > p /\ k <= p + Len(s) THEN s[k - p] ELSE b[k]]

CanUint16(b, p) == p + 2 <= Len(b)

CanUint32(b, p) == p + 4 <= Len(b)

Uint16(order, b, p) ==
    IF order = LittleEndian
    THEN At(b, p) + 256 * At(b, p + 1)
    ELSE At(b, p + 1) + 256 * At(b, p)

Uint32(order, b, p) ==
    IF order = LittleEndian
    THEN <<At(b, p + 2) + 256 * At(b, p + 3), At(b, p) + 256 * At(b, p + 1)>>
    ELSE <<At(b, p + 1) + 256 * At(b, p), At(b, p + 3) + 256 * At(b, p + 2)>>

Bytes16(order, v) ==
    IF order = LittleEndian
    THEN <<v % 256, v \div 256>>
    ELSE <<v \div 256, v % 256>>

Bytes32(order, w) ==
    IF order = LittleEndian
    THEN <<w[2] % 256, w[2] \div 256, w[1] % 256, w[1] \div 256>>
    ELSE <<w[1] \div 256, w[1] % 256, w[2] \div 256, w[2] % 256>>

PutUint16(order, b, p, v) == Store(b, p, Bytes16(order, v))

PutUint32(order, b, p, w) == Store(b, p, Bytes32(order, w))

(***************************************************************************)
(* The TIFF header: byte order (2 bytes), magic number (2 bytes), position *)
(* of the 0th IFD (4 bytes).                                               *)
(***************************************************************************)
HeaderSize == 8

MarkII == 73  \* 0x49

MarkMM == 77  \* 0x4d

Magic == 42

Zero32 == <<0, 0>>

HeaderPanic ==
    [kind |-> "GetHeader", panic |-> TRUE, valid |-> FALSE,
     order |-> NilOrder, ifdPos |-> Zero32]

HeaderResult(valid, order, ifdPos) ==
    [kind |-> "GetHeader", panic |-> FALSE, valid |-> valid,
     order |-> order, ifdPos |-> ifdPos]

\* GetHeader after the byte order mark was recognised.
GetHeaderBody(buf, order) ==
    IF ~CanUint16(buf, 2) THEN HeaderPanic
    ELSE IF Uint16(order, buf, 2) # Magic THEN HeaderResult(FALSE, order, Zero32)
    ELSE IF ~CanUint32(buf, 4) THEN HeaderPanic
    ELSE IF Uint32(order, buf, 4) = Zero32 THEN HeaderResult(FALSE, order, Zero32)
    ELSE HeaderResult(TRUE, order, Uint32(order, buf, 4))

\* The mark test indexes buf[0] and then, left to right and short-circuit,
\* buf[1]; neither index is guarded by a length check.
GetHeader(buf) ==
    IF Len(buf) < 1 THEN HeaderPanic
    ELSE IF At(buf, 0) = MarkII
    THEN IF Len(buf) < 2 THEN HeaderPanic
         ELSE IF At(buf, 1) = MarkII THEN GetHeaderBody(buf, LittleEndian)
         ELSE HeaderResult(FALSE, NilOrder, Zero32)
    ELSE IF At(buf, 0) = MarkMM
    THEN IF Len(buf) < 2 THEN HeaderPanic
         ELSE IF At(buf, 1) = MarkMM THEN GetHeaderBody(buf, BigEndian)
         ELSE HeaderResult(FALSE, NilOrder, Zero32)
    ELSE HeaderResult(FALSE, NilOrder, Zero32)

\* A PutHeader that stores the IFD position little-endian whatever the order.
PutHeaderFixedOrder(buf, order, ifdPos) ==
    LET mark == IF order = LittleEndian THEN MarkII ELSE MarkMM
    IN  [panic |-> Len(buf) < HeaderSize,
         buf |-> IF Len(buf) < HeaderSize THEN buf
                 ELSE PutUint32(LittleEndian,
                          PutUint16(order, Store(buf, 0, <<mark, mark>>), 2, Magic),
                          4, ifdPos)]

\* PutHeader stores byte by byte and panics at the first store that does not
\* fit; what was stored before the panic stays in the caller's buffer.
PutHeader(buf, order, ifdPos) ==
    LET mark == IF order = LittleEndian THEN MarkII ELSE MarkMM
        b1 == IF Len(buf) >= 1 THEN Store(buf, 0, <<mark>>) ELSE buf
        b2 == IF Len(buf) >= 2 THEN Store(b1, 1, <<mark>>) ELSE b1
        b3 == IF CanUint16(b2, 2) THEN PutUint16(order, b2, 2, Magic) ELSE b2
        b4 == IF CanUint32(b3, 4) THEN PutUint32(order, b3, 4, ifdPos) ELSE b3
    IN  [panic |-> Len(buf) < HeaderSize, buf |-> b4]

(***************************************************************************)
(* TIFF data types and the typed accessors of a Field.  A read returns     *)
(* [panic, val]; a write returns [panic, Data], Data being the field's     *)
(* data after the call (a write of two words that panics at the second     *)
(* word has already stored the first).                                     *)
(***************************************************************************)
BYTE == 1
ASCII == 2
SHORT == 3
LONG == 4
RATIONAL == 5
SBYTE == 6
UNDEFINED == 7
SSHORT == 8
SLONG == 9
SRATIONAL == 10
FLOAT == 11
DOUBLE == 12
IFD == 13

Got(v) == [panic |-> FALSE, val |-> v]

GetPanic == [panic |-> TRUE, val |-> 0]

Wrote(d) == [panic |-> FALSE, Data |-> d]

PutPanic(d) == [panic |-> TRUE, Data |-> d]

Byte(f, i) == IF i < Len(f.Data) THEN Got(At(f.Data, i)) ELSE GetPanic

PutByte(f, val, i) ==
    IF i < Len(f.Data) THEN Wrote(Store(f.Data, i, <<val>>)) ELSE PutPanic(f.Data)

Short(f, i, order) ==
    IF CanUint16(f.Data, i * 2) THEN Got(Uint16(order, f.Data, i * 2)) ELSE GetPanic

PutShort(f, val, i, order) ==
    IF CanUint16(f.Data, i * 2)
    THEN Wrote(PutUint16(order, f.Data, i * 2, val))
    ELSE PutPanic(f.Data)

Long(f, i, order) ==
    IF CanUint32(f.Data, i * 4) THEN Got(Uint32(order, f.Data, i * 4)) ELSE GetPanic

PutLong(f, val, i, order) ==
    IF CanUint32(f.Data, i * 4)
    THEN Wrote(PutUint32(order, f.Data, i * 4, val))
    ELSE PutPanic(f.Data)

SByte(f, i) == IF i < Len(f.Data) THEN Got(U8ToInt8(At(f.Data, i))) ELSE GetPanic

PutSByte(f, val, i) ==
    IF i < Len(f.Data)
    THEN Wrote(Store(f.Data, i, <<Int8ToU8(val)>>))
    ELSE PutPanic(f.Data)

SShort(f, i, order) ==
    IF CanUint16(f.Data, i * 2)
    THEN Got(U16ToInt16(Uint16(order, f.Data, i * 2)))
    ELSE GetPanic

PutSShort(f, val, i, order) ==
    IF CanUint16(f.Data, i * 2)
    THEN Wrote(PutUint16(order, f.Data, i * 2, Int16ToU16(val)))
    ELSE PutPanic(f.Data)

SLong(f, i, order) ==
    IF CanUint32(f.Data, i * 4)
    THEN Got(U32ToInt32(Uint32(order, f.Data, i * 4)))
    ELSE GetPanic

PutSLong(f, val, i, order) ==
    IF CanUint32(f.Data, i * 4)
    THEN Wrote(PutUint32(order, f.Data, i * 4, Int32ToU32(val)))
    ELSE PutPanic(f.Data)

Rational(f, i, order) ==
    IF CanUint32(f.Data, i * 8 + 4)
    THEN Got(<<Uint32(order, f.Data, i * 8), Uint32(order, f.Data, i * 8 + 4)>>)
    ELSE GetPanic

\* A PutRational that stores the denominator over the numerator.
PutRationalSameSlot(f, n, d, i, order) ==
    IF ~CanUint32(f.Data, i * 8) THEN PutPanic(f.Data)
    ELSE IF ~CanUint32(f.Data, i * 8 + 4)
    THEN PutPanic(PutUint32(order, f.Data, i * 8, n))
    ELSE Wrote(PutUint32(order, PutUint32(order, f.Data, i * 8, n), i * 8, d))

PutRational(f, n, d, i, order) ==
    IF ~CanUint32(f.Data, i * 8) THEN PutPanic(f.Data)
    ELSE IF ~CanUint32(f.Data, i * 8 + 4)
    THEN PutPanic(PutUint32(order, f.Data, i * 8, n))
    ELSE Wrote(PutUint32(order, PutUint32(order, f.Data, i * 8, n), i * 8 + 4, d))

SRational(f, i, order) ==
    IF CanUint32(f.Data, i * 8 + 4)
    THEN Got(<<U32ToInt32(Uint32(order, f.Data, i * 8)),
               U32ToInt32(Uint32(order, f.Data, i * 8 + 4))>>)
    ELSE GetPanic

PutSRational(f, n, d, i, order) ==
    IF ~CanUint32(f.Data, i * 8) THEN PutPanic(f.Data)
    ELSE IF ~CanUint32(f.Data, i * 8 + 4)
    THEN PutPanic(PutUint32(order, f.Data, i * 8, Int32ToU32(n)))
    ELSE Wrote(PutUint32(order, PutUint32(order, f.Data, i * 8, Int32ToU32(n)),
                         i * 8 + 4, Int32ToU32(d)))


(***************************************************************************)
(* The states in which the codecs not under test are at rest.              *)
(***************************************************************************)
HeaderIdle == hbuf = <<>> /\ hput = NoCall /\ hres = NoCall

EmptyField == [Tag |-> 0, Type |-> 0, Count |-> Zero32, Data |-> <<>>]

DataIdle == field = EmptyField /\ lastPut = NoCall /\ lastGet = NoCall

NoMaker == [make |-> <<>>, model |-> <<>>, position |-> 0, exifPath |-> <<>>]

NoContext ==
    [base |-> 0, order |-> NilOrder, seen |-> {}, maker |-> NoMaker,
     tree |-> <<>>, err |-> <<>>]

NoHistory == [reads |-> <<>>, revisit |-> FALSE]

TreeIdle ==
    /\ tree = <<>>
    /\ wres = NoCall
    /\ edits = <<>>
    /\ pbuf = <<>>
    /\ pc = "idle"
    /\ ctx = NoContext
    /\ outer = <<>>
    /\ stack = <<>>
    /\ call = NoCall
    /\ hist = NoHistory
    /\ pres = NoCall

(***************************************************************************)
(* The header codec driven by a caller: the caller owns a buffer of any    *)
(* length and content and calls PutHeader and GetHeader on it in any       *)
(* order.                                                                  *)
(***************************************************************************)
MaxHdrLen == 9

\* Bytes a caller's buffer may hold at Go offset k: the marks and a byte that
\* is no mark at 0..1, the magic in either order at 2..3, small offsets at 4..7.
HdrByteAt(k) ==
    IF k < 2 THEN {MarkII, MarkMM, 0}
    ELSE IF k < 4 THEN {0, Magic}
    ELSE IF k < 8 THEN {0, 8}
    ELSE {0}

RECURSIVE HdrBuffersOfLen(_)
HdrBuffersOfLen(n) ==
    IF n = 0 THEN {<<>>}
    ELSE {Append(b, x) : b \in HdrBuffersOfLen(n - 1), x \in HdrByteAt(n - 1)}

HdrBuffers == UNION {HdrBuffersOfLen(n) : n \in 0..MaxHdrLen}

\* IFD positions handed to PutHeader: zero, small, and with every byte set.
HdrPositions == {Zero32, <<0, 8>>, <<258, 772>>, <<65535, 65535>>}

HeaderInit ==
    /\ hbuf \in HdrBuffers
    /\ hput = NoCall
    /\ hres = NoCall
    /\ DataIdle
    /\ TreeIdle

PutHeaderAct ==
    \E order \in Orders, ifdPos \in HdrPositions :
        LET r == PutHeader(hbuf, order, ifdPos)
        IN  /\ hbuf' = r.buf
            /\ hput' = [kind |-> "PutHeader", order |-> order, ifdPos |-> ifdPos,
                        panic |-> r.panic]
            /\ hres' = NoCall
            /\ UNCHANGED <<dataVars, treeVars>>

GetHeaderAct ==
    /\ hres = NoCall
    /\ hres' = GetHeader(hbuf)
    /\ UNCHANGED <<hbuf, hput, dataVars, treeVars>>

HeaderNext == PutHeaderAct \/ GetHeaderAct

SpecHeader == HeaderInit /\ [][HeaderNext]_vars


\* C8: header round trip.  After PutHeader(buf, O, p) with p non-zero has
\* returned, the buffer starts with the eight bytes 'II' or 'MM', 42 in order O
\* and p in order O, and a GetHeader that follows returns (true, O, p).
HeaderRoundTrip ==
    (hput.kind = "PutHeader" /\ ~hput.panic /\ hput.ifdPos # Zero32) =>
        LET p == hput.ifdPos
            expect == IF hput.order = LittleEndian
                      THEN <<73, 73, 42, 0,
                             p[2] % 256, p[2] \div 256, p[1] % 256, p[1] \div 256>>
                      ELSE <<77, 77, 0, 42,
                             p[1] \div 256, p[1] % 256, p[2] \div 256, p[2] % 256>>
        IN  /\ Len(hbuf) >= 8
            /\ SubSeq(hbuf, 1, 8) = expect
            /\ hres.kind = "GetHeader" =>
                   /\ ~hres.panic
                   /\ hres.valid
                   /\ hres.order = hput.order
                   /\ hres.ifdPos = p

\* A big-endian header with a position whose four bytes differ was written
\* and read back.
HeaderRoundTripWitness ==
    /\ hput.kind = "PutHeader"
    /\ ~hput.panic
    /\ hput.order = BigEndian
    /\ hput.ifdPos = <<258, 772>>
    /\ hres.kind = "GetHeader"
    /\ hres.valid

\* C9: GetHeader returns, and reports 'invalid' exactly when the buffer is
\* shorter than 8 bytes, or its mark is neither 'II' nor 'MM', or the magic
\* number read in the declared order is not 42, or the root IFD offset is 0.
HeaderValidity ==
    hres.kind = "GetHeader" =>
        LET b == hbuf
            short == Len(b) < 8
            le == ~short /\ b[1] = 73 /\ b[2] = 73
            be == ~short /\ b[1] = 77 /\ b[2] = 77
            magicOK == (le /\ b[3] = 42 /\ b[4] = 0) \/ (be /\ b[3] = 0 /\ b[4] = 42)
            offsetZero == ~short /\ b[5] = 0 /\ b[6] = 0 /\ b[7] = 0 /\ b[8] = 0
            invalid == short \/ ~(le \/ be) \/ ~magicOK \/ offsetZero
        IN  /\ ~hres.panic
            /\ hres.valid <=> ~invalid


(***************************************************************************)
(* The value codec driven by a caller: a field whose data has any length   *)
(* up to MaxDataLen receives one Put<X> call and then one <X> call at the  *)
(* same index, in either byte order.  Indices run one past the largest     *)
(* data length, so that every accessor is also called out of range.        *)
(***************************************************************************)
MaxDataLen == 16

DataFill(n, kind) == [k \in 1..n |-> IF kind = 0 THEN 0 ELSE (k * 37 + 11) % 256]

DataIndices == 0..MaxDataLen

ByteVals == {0, 128, 255}

SByteVals == {-128, -1, 127}

ShortVals == {0, 4660, 32768, 65535}

SShortVals == {-32768, -1, 4660, 32767}

LongVals == {Zero32, <<4660, 22136>>, <<32768, 0>>, <<65535, 65535>>}

SLongVals == {-2147483647 - 1, -1, 305419896, 2147483647}

RationalVals == {<<<<4660, 22136>>, <<39612, 57072>>>>, <<<<65535, 65535>>, <<32768, 0>>>>}

SRationalVals == {<<-1, 305419896>>, <<-2147483647 - 1, 2147483647>>}

DataInit ==
    /\ \E n \in 0..MaxDataLen, kind \in {0, 1} :
           field = [Tag |-> 0, Type |-> UNDEFINED, Count |-> U32(n),
                    Data |-> DataFill(n, kind)]
    /\ lastPut = NoCall
    /\ lastGet = NoCall
    /\ HeaderIdle
    /\ TreeIdle

\* The caller's Put<X> call: r is what the accessor returned.
DidPut(kind, val, i, order, r) ==
    /\ lastPut = NoCall
    /\ field' = [field EXCEPT !.Data = r.Data]
    /\ lastPut' = [kind |-> kind, val |-> val, i |-> i, order |-> order,
                   before |-> field.Data, panic |-> r.panic]
    /\ UNCHANGED <<lastGet, hdrVars, treeVars>>

\* The caller's <X> call on the element the last Put<X> wrote.
DidGet(kind, order, r) ==
    /\ lastPut # NoCall
    /\ lastPut.kind = kind
    /\ lastGet = NoCall
    /\ lastGet' = [kind |-> kind, i |-> lastPut.i, order |-> order,
                   panic |-> r.panic, val |-> r.val]
    /\ UNCHANGED <<field, lastPut, hdrVars, treeVars>>

PutByteAct ==
    \E v \in ByteVals, i \in DataIndices :
        DidPut("Byte", v, i, NilOrder, PutByte(field, v, i))

PutSByteAct ==
    \E v \in SByteVals, i \in DataIndices :
        DidPut("SByte", v, i, NilOrder, PutSByte(field, v, i))

PutShortAct ==
    \E v \in ShortVals, i \in DataIndices, order \in Orders :
        DidPut("Short", v, i, order, PutShort(field, v, i, order))

PutSShortAct ==
    \E v \in SShortVals, i \in DataIndices, order \in Orders :
        DidPut("SShort", v, i, order, PutSShort(field, v, i, order))

PutLongAct ==
    \E v \in LongVals, i \in DataIndices, order \in Orders :
        DidPut("Long", v, i, order, PutLong(field, v, i, order))

PutSLongAct ==
    \E v \in SLongVals, i \in DataIndices, order \in Orders :
        DidPut("SLong", v, i, order, PutSLong(field, v, i, order))

PutRationalAct ==
    \E v \in RationalVals, i \in DataIndices, order \in Orders :
        DidPut("Rational", v, i, order, PutRational(field, v[1], v[2], i, order))

PutSRationalAct ==
    \E v \in SRationalVals, i \in DataIndices, order \in Orders :
        DidPut("SRational", v, i, order, PutSRational(field, v[1], v[2], i, order))

ByteAct == DidGet("Byte", NilOrder, Byte(field, lastPut.i))

SByteAct == DidGet("SByte", NilOrder, SByte(field, lastPut.i))

ShortAct == \E order \in Orders : DidGet("Short", order, Short(field, lastPut.i, order))

SShortAct == \E order \in Orders : DidGet("SShort", order, SShort(field, lastPut.i, order))

LongAct == \E order \in Orders : DidGet("Long", order, Long(field, lastPut.i, order))

SLongAct == \E order \in Orders : DidGet("SLong", order, SLong(field, lastPut.i, order))

RationalAct ==
    \E order \in Orders : DidGet("Rational", order, Rational(field, lastPut.i, order))

SRationalAct ==
    \E order \in Orders : DidGet("SRational", order, SRational(field, lastPut.i, order))

DataNext ==
    \/ PutByteAct \/ PutSByteAct \/ PutShortAct \/ PutSShortAct
    \/ PutLongAct \/ PutSLongAct \/ PutRationalAct \/ PutSRationalAct
    \/ ByteAct \/ SByteAct \/ ShortAct \/ SShortAct
    \/ LongAct \/ SLongAct \/ RationalAct \/ SRationalAct

SpecData == DataInit /\ [][DataNext]_vars

\* The width in bytes of one element of each accessor pair.
ElemSize(kind) ==
    CASE kind \in {"Byte", "SByte"} -> 1
      [] kind \in {"Short", "SShort"} -> 2
      [] kind \in {"Long", "SLong"} -> 4
      [] kind \in {"Rational", "SRational"} -> 8

\* C10: endianness symmetry.  For each accessor pair, either byte order, an
\* index i whose element lies within the field's data and a value v, Put<X>(v,
\* i, O) returns and leaves every byte outside element i as it was, and <X>(i,
\* O) then returns v.
EndiannessSymmetry ==
    (lastPut # NoCall /\ (lastPut.i + 1) * ElemSize(lastPut.kind) <= Len(lastPut.before)) =>
        LET lo == lastPut.i * ElemSize(lastPut.kind)
            hi == lo + ElemSize(lastPut.kind)
        IN  /\ ~lastPut.panic
            /\ Len(field.Data) = Len(lastPut.before)
            /\ \A k \in 1..Len(field.Data) :
                   (k <= lo \/ k > hi) => field.Data[k] = lastPut.before[k]
            /\ (lastGet # NoCall /\ lastGet.order = lastPut.order) =>
                   ~lastGet.panic /\ lastGet.val = lastPut.val

\* A signed rational with both extremes was written big-endian at index 1 of
\* 16 bytes of non-zero data and read back in the same order.
EndiannessSymmetryWitness ==
    /\ lastPut # NoCall
    /\ lastPut.kind = "SRational"
    /\ lastPut.i = 1
    /\ lastPut.order = BigEndian
    /\ lastPut.val = <<-2147483647 - 1, 2147483647>>
    /\ lastPut.before = DataFill(16, 1)
    /\ lastGet # NoCall
    /\ lastGet.order = BigEndian
    /\ ~lastGet.panic


(***************************************************************************)
(* IFDs and IFD trees.                                                     *)
(*                                                                         *)
(* A Field is [Tag, Type, Count, Data], Count a 32-bit word.  An ImageData *)
(* is [OffsetTag, SizeTag, Segments].  An IFDNode is [Order, Fields,       *)
(* ImageData, Space, Rec, Label, SubIFDs, Next]: Rec names the SpaceRec    *)
(* implementation, Label is the label of a Nikon2SpaceRec, SubIFDs is a    *)
(* sequence of [Tag, Node] and Next is the empty sequence (nil) or a       *)
(* sequence holding the next node.                                         *)
(***************************************************************************)
Compression == 259           \* 0x103
Make == 271                  \* 0x10F
Model == 272                 \* 0x110
StripOffsets == 273          \* 0x111
StripByteCounts == 279       \* 0x117
FreeOffsets == 288           \* 0x120
FreeByteCounts == 289        \* 0x121
TileOffsets == 324           \* 0x144
TileByteCounts == 325        \* 0x145
SubIFDs == 330               \* 0x14A
JPEGInterchangeFormat == 513        \* 0x201
JPEGInterchangeFormatLength == 514  \* 0x202
JPEGQTables == 519           \* 0x207
JPEGDCTables == 520          \* 0x208
JPEGACTables == 521          \* 0x209
ExifIFD == 34665             \* 0x8769
GPSIFD == 34853              \* 0x8825
interOpIFD == 40965          \* 0xA005
makerNote == 37500           \* 0x927C
Nikon2PreviewIFD == 17       \* 0x11
Nikon2NikonScanIFD == 3600   \* 0xE10
Nikon2MakerNoteVersion == 1

TIFFSpace == 0
UnknownSpace == 1
ExifSpace == 2
GPSSpace == 3
InteropSpace == 4
MPFIndexSpace == 5
MPFAttributeSpace == 6
Nikon1Space == 7
Nikon2Space == 8
Nikon2PreviewSpace == 9
Nikon2ScanSpace == 10
Panasonic1Space == 11

TypeSize(t) ==
    CASE t \in {BYTE, ASCII, SBYTE, UNDEFINED} -> 1
      [] t \in {SHORT, SSHORT} -> 2
      [] t \in {LONG, SLONG, FLOAT, IFD} -> 4
      [] t \in {RATIONAL, SRATIONAL, DOUBLE} -> 8
      [] OTHER -> 0

\* k * w modulo 2^32, for a small factor k.
Mul32(k, w) ==
    LET lo == k * w[2]
        hi == k * w[1] + (lo \div 65536)
    IN  <<hi % 65536, lo % 65536>>

FieldSize(f) == Mul32(TypeSize(f.Type), f.Count)

IsIFD(f, space) ==
    \/ f.Type = IFD
    \/ space = TIFFSpace /\ f.Tag \in {SubIFDs, ExifIFD, GPSIFD}
    \/ space = ExifSpace /\ f.Tag = interOpIFD
    \/ space = Nikon2Space /\ f.Tag \in {Nikon2PreviewIFD, Nikon2NikonScanIFD}

SubSpace(space, tag) ==
    IF space = TIFFSpace /\ tag = SubIFDs THEN TIFFSpace
    ELSE IF space = TIFFSpace /\ tag = ExifIFD THEN ExifSpace
    ELSE IF space = TIFFSpace /\ tag = GPSIFD THEN GPSSpace
    ELSE IF space = ExifSpace /\ tag = interOpIFD THEN InteropSpace
    ELSE IF space = Nikon2Space /\ tag = Nikon2PreviewIFD THEN Nikon2PreviewSpace
    ELSE IF space = Nikon2Space /\ tag = Nikon2NikonScanIFD THEN Nikon2ScanSpace
    ELSE UnknownSpace

ImageDataSpec(offsetTag, sizeTag) == [OffsetTag |-> offsetTag, SizeTag |-> sizeTag]

TIFFImageData ==
    <<ImageDataSpec(StripOffsets, StripByteCounts),
      ImageDataSpec(TileOffsets, TileByteCounts),
      ImageDataSpec(FreeOffsets, FreeByteCounts),
      ImageDataSpec(JPEGInterchangeFormat, JPEGInterchangeFormatLength),
      ImageDataSpec(JPEGQTables, 0),
      ImageDataSpec(JPEGDCTables, 0),
      ImageDataSpec(JPEGACTables, 0)>>

IFDSize(ifd) == 2 + Len(ifd.Fields) * 12 + 4

\* The indices of the fields that match one of the tags, in field order; a
\* field is listed once for every tag of the list it matches.
RECURSIVE FindFieldsFrom(_, _, _, _)
FindFieldsFrom(ifd, tags, i, t) ==
    IF i > Len(ifd.Fields) THEN <<>>
    ELSE IF t > Len(tags) THEN FindFieldsFrom(ifd, tags, i + 1, 1)
    ELSE IF ifd.Fields[i].Tag = tags[t]
    THEN <<i>> \o FindFieldsFrom(ifd, tags, i, t + 1)
    ELSE FindFieldsFrom(ifd, tags, i, t + 1)

FindFields(ifd, tags) == FindFieldsFrom(ifd, tags, 1, 1)

Align(pos) == IF (pos \div 2) * 2 # pos THEN pos + 1 ELSE pos

nikon1Label == <<78, 105, 107, 111, 110, 0, 1, 0>>

nikon2LabelPrefix == <<78, 105, 107, 111, 110, 0>>

panasonicLabel == <<80, 97, 110, 97, 115, 111, 110, 105, 99, 0, 0, 0>>


(***************************************************************************)
(* The serializer's view of its output.  A writer state w holds the        *)
(* caller's buffer buf, the Go offset base at which the slice the code is  *)
(* working on starts in buf, whether a run-time panic has ended the call   *)
(* (and in why, whether an access to the buffer or to field data caused    *)
(* it), whether a copy was cut short by the end of the buffer, and two     *)
(* records of what was done: offs, the offsets stored as values, and puts, *)
(* the calls of IFD_T.Put with their outcome.  Nothing is done after a     *)
(* panic.                                                                  *)
(***************************************************************************)
NoErr == ""

ErrAlign == "IFD_T.Put: pos is not word aligned"

ErrTagOrder == "IFD_T.Put: tags are out of order"

ErrSubType == "IFD_T.Put: sub-IFD pointer expected to have field type with size 4"

ErrOffsetFields == "putImageData: ImageData offset fields don't match IFD"

ErrOffsetType == "putImageData: OffsetField not LONG or SHORT"

ErrShortPos == "putImageData: position is too large for SHORT field"

Zeros(n) == [k \in 1..n |-> 0]

NewWriter(n) ==
    [buf |-> Zeros(n), base |-> 0, panic |-> FALSE, why |-> "", trunc |-> FALSE,
     offs |-> {}, puts |-> <<>>]

SliceLen(w) == Len(w.buf) - w.base

Panicked(w, why) == IF w.panic THEN w ELSE [w EXCEPT !.panic = TRUE, !.why = why]

\* order.PutUint16(buf[p:], v) and order.PutUint32(buf[p:], v).
W16(w, order, p, v) ==
    IF w.panic THEN w
    ELSE IF p + 2 <= SliceLen(w)
    THEN [w EXCEPT !.buf = PutUint16(order, w.buf, w.base + p, v)]
    ELSE Panicked(w, "buf")

W32(w, order, p, v) ==
    IF w.panic THEN w
    ELSE IF p + 4 <= SliceLen(w)
    THEN [w EXCEPT !.buf = PutUint32(order, w.buf, w.base + p, v)]
    ELSE Panicked(w, "buf")

\* copy(buf[p:], s): the slice expression panics past the end of the buffer,
\* the copy itself stops silently at the end of the buffer.
Copy(w, p, s) ==
    IF w.panic THEN w
    ELSE IF p > SliceLen(w) THEN Panicked(w, "buf")
    ELSE LET n == IF Len(s) <= SliceLen(w) - p THEN Len(s) ELSE SliceLen(w) - p
         IN  [w EXCEPT !.buf = Store(w.buf, w.base + p, SubSeq(s, 1, n)),
                       !.trunc = w.trunc \/ n < Len(s)]

\* copy(buf[p:p+size], data).
CopyInto(w, p, size, data) ==
    IF w.panic THEN w
    ELSE IF p + size > SliceLen(w) THEN Panicked(w, "buf")
    ELSE LET n == IF Len(data) <= size THEN Len(data) ELSE size
         IN  [w EXCEPT !.buf = Store(w.buf, w.base + p, SubSeq(data, 1, n))]

LogOffset(w, what, off) ==
    IF w.panic THEN w ELSE [w EXCEPT !.offs = w.offs \cup {[what |-> what, off |-> off]}]

LogPut(w, ifd, pos, err) ==
    IF w.panic THEN w
    ELSE [w EXCEPT !.puts = Append(w.puts,
             [tags |-> [k \in 1..Len(ifd.Fields) |-> ifd.Fields[k].Tag],
              pos |-> pos, err |-> err])]

\* A writer that stores every position in a SHORT field.
ShortPosNeverTooLarge(pos) == FALSE

\* pos >= 2<<15
ShortPosTooLarge(pos) == pos >= 65536

\* The segments of one ImageData, from the jth on.  Returns [w, pos, data, err].
RECURSIVE PutSegments(_, _, _, _, _, _, _)
PutSegments(w, order, segs, j, type, offsetData, pos) ==
    IF j > Len(segs) \/ w.panic
    THEN [w |-> w, pos |-> pos, data |-> offsetData, err |-> NoErr]
    ELSE LET w1 == Copy(w, pos, segs[j])
             stop(w2, err) == [w |-> w2, pos |-> pos, data |-> offsetData, err |-> err]
         IN  IF w1.panic THEN stop(w1, NoErr)
             ELSE IF type = LONG
             THEN IF ~CanUint32(offsetData, (j - 1) * 4) THEN stop(Panicked(w1, "data"), NoErr)
                  ELSE PutSegments(LogOffset(w1, "segment", pos), order, segs, j + 1, type,
                                   PutUint32(order, offsetData, (j - 1) * 4, U32(pos)),
                                   pos + Len(segs[j]))
             ELSE IF ShortPosTooLarge(pos) THEN stop(w1, ErrShortPos)
             ELSE IF ~CanUint16(offsetData, (j - 1) * 2) THEN stop(Panicked(w1, "data"), NoErr)
             ELSE PutSegments(LogOffset(w1, "segment", pos), order, segs, j + 1, type,
                              PutUint16(order, offsetData, (j - 1) * 2, pos % 65536),
                              pos + Len(segs[j]))

\* The ImageData of an IFD from the ith on; the ith ImageData is paired with the
\* ith field FindFields returned.  map is the offset map built so far, a
\* sequence of [tag, data] in which a later entry replaces an earlier one.
RECURSIVE PutImageDataFrom(_, _, _, _, _, _)

\* The ith ImageData once its segments are written: r is what PutSegments
\* returned, map holds the entry of its offset field.
PutImageDataNext(ifd, i, offsetFields, map, r) ==
    IF r.err # NoErr \/ r.w.panic
    THEN [w |-> r.w, pos |-> r.pos, map |-> map, err |-> r.err]
    ELSE PutImageDataFrom(r.w, ifd, i + 1, offsetFields, r.pos, map)

\* The offset map with the entry of a field replaced by what PutSegments
\* stored in the field's new data.
WithOffsets(map, tag, r) == Append(map, [tag |-> tag, data |-> r.data])

PutImageDataFrom(w, ifd, i, offsetFields, pos, map) ==
    IF i > Len(ifd.ImageData) \/ w.panic
    THEN [w |-> w, pos |-> pos, map |-> map, err |-> NoErr]
    ELSE LET f == ifd.Fields[offsetFields[i]]
             tag == ifd.ImageData[i].OffsetTag
             offsetData == Zeros(N32(FieldSize(f)))
             written(r) == PutImageDataNext(ifd, i, offsetFields,
                                            WithOffsets(map, tag, r), r)
         IN  IF f.Type # LONG /\ f.Type # SHORT
             THEN [w |-> w, pos |-> pos, err |-> ErrOffsetType,
                   map |-> Append(map, [tag |-> tag, data |-> offsetData])]
             ELSE written(PutSegments(w, ifd.Order, ifd.ImageData[i].Segments, 1,
                                      f.Type, offsetData, pos))

putImageData(w, ifd, pos) ==
    LET offsetTags == [i \in 1..Len(ifd.ImageData) |-> ifd.ImageData[i].OffsetTag]
        offsetFields == FindFields(ifd, offsetTags)
    IN  IF Len(offsetFields) # Len(offsetTags)
        THEN [w |-> w, pos |-> pos, map |-> <<>>, err |-> ErrOffsetFields]
        ELSE PutImageDataFrom(w, ifd, 1, offsetFields, pos, <<>>)

\* offsets[tag] of the offset map: whether there is an entry, and the entry.
HasOffsets(map, tag) == \E k \in 1..Len(map) : map[k].tag = tag

OffsetsOf(map, tag) ==
    map[CHOOSE k \in 1..Len(map) :
            map[k].tag = tag /\ \A m \in (k + 1)..Len(map) : map[m].tag # tag].data


\* The pointers of the sub-IFDs that a field refers to, written one after the
\* other into the field's data; more pointers than the data holds panic.
RECURSIVE PutPointers(_, _, _, _)
PutPointers(order, data, ptrs, i) ==
    IF i > Len(ptrs) THEN [panic |-> FALSE, data |-> data]
    ELSE IF ~CanUint32(data, (i - 1) * 4) THEN [panic |-> TRUE, data |-> data]
    ELSE PutPointers(order, PutUint32(order, data, (i - 1) * 4, U32(ptrs[i].Pos)), ptrs, i + 1)

RECURSIVE LogPointers(_, _, _)
LogPointers(w, ptrs, i) ==
    IF i > Len(ptrs) THEN w ELSE LogPointers(LogOffset(w, "sub", ptrs[i].Pos), ptrs, i + 1)

TagsNeverOutOfOrder(tag, lastTag) == FALSE

\* Put's test of a field's tag against the tag of the field before it.
TagsOutOfOrder(tag, lastTag) == tag < lastTag

\* The entries of an IFD from the ith on: pos is where the entry goes, datapos
\* where the next external data goes.  Returns [w, err, pos, datapos].
RECURSIVE PutFields(_, _, _, _, _, _, _, _)
PutFields(w, ifd, i, pos, datapos, lastTag, subifds, offsets) ==
    IF i > Len(ifd.Fields) \/ w.panic
    THEN [w |-> w, err |-> NoErr, pos |-> pos, datapos |-> datapos]
    ELSE
    LET f == ifd.Fields[i]
        order == ifd.Order
        stop(w2, err) == [w |-> w2, err |-> err, pos |-> pos, datapos |-> datapos]
        w1 == W16(W16(w, order, pos, f.Tag), order, pos + 2, f.Type)
        subifdPtrs == SelectSeq(subifds, LAMBDA sp : sp.Tag = f.Tag)
        size == N32(FieldSize(f))
    IN
    IF TagsOutOfOrder(f.Tag, lastTag) THEN stop(w, ErrTagOrder)
    ELSE IF Len(subifdPtrs) > 0 /\ f.Type = UNDEFINED
    THEN PutFields(LogOffset(W32(W32(w1, order, pos + 4, U32(subifdPtrs[1].Size)),
                                 order, pos + 8, U32(subifdPtrs[1].Pos)),
                             "sub", subifdPtrs[1].Pos),
                   ifd, i + 1, pos + 12, datapos, f.Tag, subifds, offsets)
    ELSE
    LET w2 == W32(w1, order, pos + 4, f.Count)
        ptrData == PutPointers(order, Zeros(size), subifdPtrs, 1)
        data == IF Len(subifdPtrs) > 0 THEN ptrData.data
                ELSE IF HasOffsets(offsets, f.Tag) THEN OffsetsOf(offsets, f.Tag)
                ELSE f.Data
        w3 == IF Len(subifdPtrs) > 0 THEN LogPointers(w2, subifdPtrs, 1) ELSE w2
    IN
    IF Len(subifdPtrs) > 0 /\ TypeSize(f.Type) # 4 THEN stop(w2, ErrSubType)
    ELSE IF Len(subifdPtrs) > 0 /\ ptrData.panic THEN stop(Panicked(w2, "data"), NoErr)
    ELSE IF size <= 4
    THEN IF size > Len(data)
         THEN stop(Panicked(Copy(w3, pos + 8, Zeros(4)), "data"), NoErr)
         ELSE PutFields(Copy(Copy(w3, pos + 8, Zeros(4)), pos + 8, SubSeq(data, 1, size)),
                        ifd, i + 1, pos + 12, datapos, f.Tag, subifds, offsets)
    ELSE PutFields(CopyInto(LogOffset(W32(w3, order, pos + 8, U32(datapos)),
                                      "data", datapos),
                            datapos, size, data),
                   ifd, i + 1, pos + 12, datapos + size, f.Tag, subifds, offsets)

\* IFD_T.Put.  Returns [w, err, pos], pos being the position after the last
\* external data, 0 with an error.
IFDPutDone(w, ifd, pos, err, ret) ==
    [w |-> LogPut(w, ifd, pos, err), err |-> err, pos |-> ret]

\* The end of Put: r is what the loop over the fields left, the next pointer
\* goes after the last entry.
IFDPutNext(ifd, pos, nextptr, r) ==
    IF r.err # NoErr \/ r.w.panic THEN IFDPutDone(r.w, ifd, pos, r.err, 0)
    ELSE IFDPutDone(LogOffset(LogOffset(W32(r.w, ifd.Order, r.pos, U32(nextptr)),
                                        "ifd", pos),
                              "next", nextptr),
                    ifd, pos, NoErr, r.datapos)

\* Put after putImageData returned im: the entry count and the fields.
IFDPutFields(ifd, pos, subifds, nextptr, im) ==
    IF im.err # NoErr \/ im.w.panic THEN IFDPutDone(im.w, ifd, pos, im.err, 0)
    ELSE IFDPutNext(ifd, pos, nextptr,
                    PutFields(W16(im.w, ifd.Order, pos, Len(ifd.Fields) % 65536), ifd, 1,
                              pos + 2, im.pos, 0, subifds, im.map))

IFDPut(w, ifd, pos, subifds, nextptr) ==
    IF (pos \div 2) * 2 # pos THEN IFDPutDone(w, ifd, pos, ErrAlign, 0)
    ELSE IFDPutFields(ifd, pos, subifds, nextptr,
                      putImageData(w, ifd, pos + IFDSize(ifd)))


RECURSIVE SumSeq(_)
SumSeq(q) == IF q = <<>> THEN 0 ELSE Head(q) + SumSeq(Tail(q))

sizeTIFFTableOnly(node) == IFDSize(node)

\* Serialized size of a standard TIFF node: the table, the external data of
\* the fields (but not of a single-byte-typed field that a sub-IFD stands
\* for) and the image data.
sizeTIFF(node) ==
    LET unpacked(f) == \E i \in 1..Len(node.SubIFDs) :
                           node.SubIFDs[i].Tag = f.Tag /\ TypeSize(f.Type) = 1
        fsize(f) == IF unpacked(f) \/ N32(FieldSize(f)) <= 4 THEN 0 ELSE N32(FieldSize(f))
        segs(id) == SumSeq([j \in 1..Len(id.Segments) |-> Len(id.Segments[j])])
    IN  IFDSize(node)
        + SumSeq([i \in 1..Len(node.Fields) |-> fsize(node.Fields[i])])
        + SumSeq([i \in 1..Len(node.ImageData) |-> segs(node.ImageData[i])])

\* IFDNode.Size: the Size of the node's SpaceRec.
NodeSize(node) ==
    CASE node.Rec = "Nikon1" -> Len(nikon1Label) + sizeTIFF(node)
      [] node.Rec = "Nikon2" ->
             IF Len(node.Label) = 0 THEN sizeTIFF(node)
             ELSE Len(node.Label) + HeaderSize + sizeTIFF(node)
      [] node.Rec = "Panasonic1" -> Len(panasonicLabel) + sizeTIFF(node)
      [] OTHER -> sizeTIFF(node)

RECURSIVE TreeSize(_)
RECURSIVE TreeSizeSubs(_, _, _)
TreeSizeSubs(node, i, size) ==
    IF i > Len(node.SubIFDs) THEN size
    ELSE TreeSizeSubs(node, i + 1, Align(size) + TreeSize(node.SubIFDs[i].Node))

TreeSize(node) ==
    LET size == Align(TreeSizeSubs(node, 1, NodeSize(node)))
    IN  IF node.Next # <<>> THEN size + TreeSize(node.Next[1]) ELSE size

\* PutIFDTree and putIFDTreeTIFF return [w, err, pos]: pos is the position
\* after the last byte used, 0 with an error.
RECURSIVE PutIFDTree(_, _, _)
RECURSIVE putIFDTreeTIFF(_, _, _)
RECURSIVE PutSubIFDs(_, _, _, _, _)

PutTreeResult(w, err, pos) == [w |-> w, err |-> err, pos |-> pos]

\* The ith sub-IFD once its tree is written at the position at (r).
PutSubIFDsNext(node, i, subpos, at, r) ==
    IF r.err # NoErr \/ r.w.panic
    THEN [w |-> r.w, err |-> r.err, next |-> 0, subpos |-> subpos]
    ELSE PutSubIFDs(r.w, node, i + 1, r.pos,
                    Append(subpos, [Tag |-> node.SubIFDs[i].Tag, Pos |-> at,
                                    Size |-> r.pos - at]))

\* The sub-IFDs of a node from the ith on, written from next on.  Returns
\* [w, err, next, subpos].
PutSubIFDs(w, node, i, next, subpos) ==
    IF i > Len(node.SubIFDs) \/ w.panic
    THEN [w |-> w, err |-> NoErr, next |-> next, subpos |-> subpos]
    ELSE PutSubIFDsNext(node, i, subpos, Align(next),
                        PutIFDTree(w, node.SubIFDs[i].Node, Align(next)))

\* The end of putIFDTreeTIFF: r is what Put returned for the node's own IFD,
\* next the position after the next IFD's tree.
PutTreeEnd(next, r) ==
    IF r.err # NoErr \/ r.w.panic THEN PutTreeResult(r.w, r.err, 0)
    ELSE PutTreeResult(r.w, NoErr, next)

\* putIFDTreeTIFF after the next IFD's tree is written (n): the node's own IFD.
PutTreeNode(node, pos, subpos, nextPos, n) ==
    IF n.err # NoErr \/ n.w.panic THEN PutTreeResult(n.w, n.err, 0)
    ELSE PutTreeEnd(n.pos, IFDPut(n.w, node, pos, subpos, nextPos))

\* putIFDTreeTIFF after the sub-IFDs are written (s): the next IFD's tree.
PutTreeNext(node, pos, s) ==
    LET nextPos == IF node.Next # <<>> THEN Align(s.next) ELSE 0
    IN  IF s.err # NoErr \/ s.w.panic THEN PutTreeResult(s.w, s.err, 0)
        ELSE PutTreeNode(node, pos, s.subpos, nextPos,
                         IF node.Next # <<>> THEN PutIFDTree(s.w, node.Next[1], nextPos)
                         ELSE PutTreeResult(s.w, NoErr, s.next))

\* A writer that puts the sub-IFDs straight after the table.
putIFDTreeTIFFAfterTable(w, node, pos) ==
    PutTreeNext(node, pos, PutSubIFDs(w, node, 1, pos + IFDSize(node), <<>>))

putIFDTreeTIFF(w, node, pos) ==
    PutTreeNext(node, pos, PutSubIFDs(w, node, 1, pos + sizeTIFF(node), <<>>))

\* A Nikon2 maker note with a label is a TIFF file of its own after the label:
\* the header and the tree are written into the rest of the buffer, with
\* positions relative to it.  r is what putIFDTreeTIFF returned for it.
Nikon2TreeEnd(w, start, r) ==
    IF r.err # NoErr \/ r.w.panic
    THEN PutTreeResult([r.w EXCEPT !.base = w.base], r.err, 0)
    ELSE PutTreeResult([r.w EXCEPT !.base = w.base], NoErr, start + r.pos)

\* w1 is the writer after the label, hdr what PutHeader did to the rest.
Nikon2TreeBody(w, w1, node, start, hdr) ==
    IF w1.panic THEN PutTreeResult(w1, NoErr, 0)
    ELSE IF start > SliceLen(w1) THEN PutTreeResult(Panicked(w1, "buf"), NoErr, 0)
    ELSE IF hdr.panic
    THEN PutTreeResult(Panicked([w1 EXCEPT !.buf = Store(w1.buf, w1.base + start, hdr.buf)],
                                "buf"),
                       NoErr, 0)
    ELSE Nikon2TreeEnd(w, start,
             putIFDTreeTIFF([w1 EXCEPT !.buf = Store(w1.buf, w1.base + start, hdr.buf),
                                       !.base = w1.base + start],
                            node, HeaderSize))

Nikon2TreeHeader(w, w1, node, start) ==
    Nikon2TreeBody(w, w1, node, start,
                   PutHeader(SubSeq(w1.buf, w1.base + start + 1, Len(w1.buf)),
                             node.Order, U32(HeaderSize)))

PutIFDTreeNikon2(w, node, pos) ==
    Nikon2TreeHeader(w, Copy(w, pos, node.Label), node, pos + Len(node.Label))

\* The label that the node's SpaceRec writes in front of a plain IFD tree.
PlainLabel(node) ==
    CASE node.Rec = "Nikon1" -> nikon1Label
      [] node.Rec = "Panasonic1" -> panasonicLabel
      [] OTHER -> <<>>

PutIFDTree(w, node, pos) ==
    IF node.Rec = "Nikon2" /\ Len(node.Label) # 0 THEN PutIFDTreeNikon2(w, node, pos)
    ELSE putIFDTreeTIFF(IF PlainLabel(node) = <<>> THEN w
                        ELSE Copy(w, pos, PlainLabel(node)),
                        node, pos + Len(PlainLabel(node)))


(***************************************************************************)
(* Reading an IFD.  Positions read from the buffer are 32-bit words; the   *)
(* range checks are made in 32-bit arithmetic as the code makes them, and  *)
(* a position that passed its check is then used as an index.  A buffer    *)
(* holds fewer than 65536 bytes.                                           *)
(***************************************************************************)
ErrIFDPos == 1

ErrIFDTruncated == 2

ErrFieldData == 3

ErrImageData == 4

Ones32 == <<65535, 65535>>

\* w > n for a word w and a buffer size n.
Gt32N(w, n) == w[1] # 0 \/ w[2] > n

GetIFDError(errType, ifdPos, entries, tag) ==
    [ErrType |-> errType, IFDPos |-> ifdPos, IFDEntries |-> entries, FieldTag |-> tag]

\* uint32(f.AnyInteger(j, order)): the element widened to 64 bits with its
\* sign and cut to 32 bits.
WidenUnsigned(r) == IF r.panic THEN r ELSE Got(U32(r.val))

WidenSigned(r) == IF r.panic THEN r ELSE Got(Int32ToU32(r.val))

AnyIntegerU32(f, j, order) ==
    CASE f.Type = BYTE -> WidenUnsigned(Byte(f, j))
      [] f.Type = SHORT -> WidenUnsigned(Short(f, j, order))
      [] f.Type = LONG -> Long(f, j, order)
      [] f.Type = SBYTE -> WidenSigned(SByte(f, j))
      [] f.Type = SSHORT -> WidenSigned(SShort(f, j, order))
      [] f.Type = SLONG -> WidenSigned(SLong(f, j, order))
      [] OTHER -> GetPanic

\* The position and size of a segment: [panic, err, offset, size].
Extent(offset, size) == [panic |-> FALSE, err |-> FALSE, offset |-> offset, size |-> size]

ExtentFail(panic) == [panic |-> panic, err |-> ~panic, offset |-> Zero32, size |-> Zero32]

\* An old-style JPEG table at the position long: 64 bytes, or 16 counts and
\* as many values as the counts add up to.
JPEGTableExtent(buf, tag, long) ==
    IF long.panic THEN ExtentFail(TRUE)
    ELSE IF tag = JPEGQTables THEN Extent(long.val, <<0, 64>>)
    ELSE IF Lt32(Add32(long.val, <<0, 15>>), long.val)
            \/ ~Lt32(Add32(long.val, <<0, 15>>), U32(Len(buf)))
    THEN ExtentFail(FALSE)
    ELSE Extent(long.val, U32(16 + SumSeq([k \in 1..16 |-> At(buf, long.val[2] + k - 1)])))

PairExtent(off, siz) ==
    IF off.panic \/ siz.panic THEN ExtentFail(TRUE) ELSE Extent(off.val, siz.val)

\* The position and size of segment j of an offset field.
SegmentExtent(buf, order, offsetField, sizeField, j) ==
    IF offsetField.Tag \in {JPEGQTables, JPEGDCTables, JPEGACTables}
    THEN JPEGTableExtent(buf, offsetField.Tag, Long(offsetField, j, order))
    ELSE IF sizeField = <<>> THEN Extent(Zero32, Zero32)
    ELSE PairExtent(AnyIntegerU32(offsetField, j, order),
                    AnyIntegerU32(sizeField[1], j, order))

\* The segments of an offset field from the jth on.  Returns [panic, err, segs].
RECURSIVE GetSegments(_, _, _, _, _, _)

\* Segment j, whose position and size are e.
GetSegmentsNext(buf, order, offsetField, sizeField, j, segs, e) ==
    LET last == Add32(Add32(e.offset, e.size), Ones32)
        from == e.offset[2]
    IN  IF e.panic \/ e.err THEN [panic |-> e.panic, err |-> e.err, segs |-> segs]
        ELSE IF e.size = Zero32
        THEN GetSegments(buf, order, offsetField, sizeField, j + 1, Append(segs, <<>>))
        ELSE IF Lt32(last, e.offset) \/ Gt32N(last, Len(buf))
        THEN [panic |-> FALSE, err |-> TRUE, segs |-> segs]
        ELSE IF from + e.size[2] > Len(buf)
        THEN [panic |-> TRUE, err |-> FALSE, segs |-> segs]
        ELSE GetSegments(buf, order, offsetField, sizeField, j + 1,
                         Append(segs, SubSeq(buf, from + 1, from + e.size[2])))

GetSegments(buf, order, offsetField, sizeField, j, segs) ==
    IF ~Lt32(U32(j), offsetField.Count) THEN [panic |-> FALSE, err |-> FALSE, segs |-> segs]
    ELSE GetSegmentsNext(buf, order, offsetField, sizeField, j, segs,
                         SegmentExtent(buf, order, offsetField, sizeField, j))

\* getImageData from the ith spec on.  specF[i] holds the offset field and the
\* size field found for spec i, each as an empty sequence (nil) or a sequence
\* of one field.  Returns [panic, err, tag, imageData].
RECURSIVE getImageData(_, _, _, _, _)

\* Spec i, whose segments are r.
getImageDataNext(buf, specF, order, i, imageData, r) ==
    LET of == specF[i].offsetField[1]
        sizeTag == IF specF[i].sizeField # <<>> THEN specF[i].sizeField[1].Tag ELSE 0
    IN  IF r.panic \/ r.err
        THEN [panic |-> r.panic, err |-> r.err, tag |-> of.Tag, imageData |-> <<>>]
        ELSE getImageData(buf, specF, order, i + 1,
                          Append(imageData, [OffsetTag |-> of.Tag, SizeTag |-> sizeTag,
                                             Segments |-> r.segs]))

getImageData(buf, specF, order, i, imageData) ==
    IF i > Len(specF)
    THEN [panic |-> FALSE, err |-> FALSE, tag |-> 0, imageData |-> imageData]
    ELSE IF specF[i].offsetField = <<>>
    THEN getImageData(buf, specF, order, i + 1, imageData)
    ELSE getImageDataNext(buf, specF, order, i, imageData,
                          GetSegments(buf, order, specF[i].offsetField[1],
                                      specF[i].sizeField, 0, <<>>))


NoSpecF(spec) == [j \in 1..Len(spec) |-> [offsetField |-> <<>>, sizeField |-> <<>>]]

\* The image data fields after field f was read: f becomes the offset field
\* and the size field of every spec that names its tag.
NoteSpecF(specF, spec, f) ==
    [j \in 1..Len(spec) |->
        [offsetField |-> IF spec[j].OffsetTag = f.Tag THEN <<f>> ELSE specF[j].offsetField,
         sizeField |-> IF spec[j].SizeTag = f.Tag THEN <<f>> ELSE specF[j].sizeField]]

GetIFDPanic ==
    [panic |-> TRUE, err |-> <<>>, ifd |-> <<>>, next |-> Zero32, makerNotePos |-> 0]

GetIFDFail(order, fields, err) ==
    [panic |-> FALSE, err |-> <<err>>,
     ifd |-> [Order |-> order, Fields |-> fields, ImageData |-> <<>>],
     next |-> Zero32, makerNotePos |-> 0]

\* The entries of an IFD from the ith on; pos is the position of the entry,
\* fields holds the entries read so far and the zero Fields not yet read.
RECURSIVE GetFields(_, _, _, _, _, _, _, _, _, _)

\* After the entries: im is what getImageData returned, pos the position of
\* the next pointer.
GetFieldsEnd(buf, order, ifdpos, entries, pos, st, fields, im) ==
    IF im.panic THEN GetIFDPanic
    ELSE IF im.err
    THEN GetIFDFail(order, fields, GetIFDError(ErrImageData, ifdpos, entries, im.tag))
    ELSE [panic |-> FALSE, err |-> <<>>,
          ifd |-> [Order |-> order, Fields |-> fields, ImageData |-> im.imageData],
          next |-> Uint32(order, buf, pos), makerNotePos |-> st.makerNotePos]

\* The 12 bytes of the entry at pos.
EntryAt(buf, order, pos) ==
    [Tag |-> Uint16(order, buf, pos), Type |-> Uint16(order, buf, pos + 2) % 256,
     Count |-> Uint32(order, buf, pos + 4), word |-> Uint32(order, buf, pos + 8)]

\* Entry i, whose 12 bytes are e.
GetFieldsEntry(buf, order, ifdpos, entries, spec, wantMaker, i, pos, st, fields, e) ==
    LET size == Mul32(TypeSize(e.Type), e.Count)
        external == Gt32N(size, 4)
        last == Add32(Add32(e.word, size), Ones32)
        dataPos == IF external THEN e.word[2] ELSE pos + 8
        f == [Tag |-> e.Tag, Type |-> e.Type, Count |-> e.Count,
              Data |-> SubSeq(buf, dataPos + 1, dataPos + size[2])]
    IN  IF external /\ (Lt32(last, e.word) \/ Gt32N(last, Len(buf)))
        THEN GetIFDFail(order,
                        [fields EXCEPT ![i] = [EmptyField EXCEPT !.Tag = e.Tag,
                                                                 !.Type = e.Type,
                                                                 !.Count = e.Count]],
                        GetIFDError(ErrFieldData, ifdpos, entries, e.Tag))
        ELSE IF dataPos + size[2] > Len(buf) THEN GetIFDPanic
        ELSE GetFields(buf, order, ifdpos, entries, spec, wantMaker, i + 1, pos + 12,
                       [specF |-> NoteSpecF(st.specF, spec, f),
                        makerNotePos |-> IF wantMaker /\ e.Tag = makerNote THEN dataPos
                                         ELSE st.makerNotePos],
                       [fields EXCEPT ![i] = f])

GetFields(buf, order, ifdpos, entries, spec, wantMaker, i, pos, st, fields) ==
    IF i > entries
    THEN GetFieldsEnd(buf, order, ifdpos, entries, pos, st, fields,
                      getImageData(buf, st.specF, order, 1, <<>>))
    ELSE GetFieldsEntry(buf, order, ifdpos, entries, spec, wantMaker, i, pos, st, fields,
                        EntryAt(buf, order, pos))

\* GetIFD(buf, order, pos, spec, fieldProc): wantMaker says that fieldProc is
\* the procedure that records the data position of the maker note field.
\* Returns [panic, err, ifd, next, makerNotePos], err being the empty sequence
\* (nil) or a sequence holding the GetIFDError.
GetIFD(buf, order, pos, spec, wantMaker) ==
    LET bufsize == Len(buf)
        pos2 == Add32(pos, <<0, 2>>)
        p == pos[2]
        entries == Uint16(order, buf, p)
        size == 2 + entries * 12 + 4
    IN  IF Lt32(pos2, pos) \/ Gt32N(pos2, bufsize)
        THEN GetIFDFail(order, <<>>, GetIFDError(ErrIFDPos, pos, 0, 0))
        ELSE IF entries = 0
        THEN [panic |-> FALSE, err |-> <<>>,
              ifd |-> [Order |-> order, Fields |-> <<>>, ImageData |-> <<>>],
              next |-> Zero32, makerNotePos |-> 0]
        ELSE IF p + size > bufsize
        THEN GetIFDFail(order, <<>>, GetIFDError(ErrIFDTruncated, pos, entries, 0))
        ELSE GetFields(buf, order, pos, entries, spec, wantMaker, 1, p + 2,
                       [specF |-> NoSpecF(spec), makerNotePos |-> 0],
                       [k \in 1..entries |-> EmptyField])


(***************************************************************************)
(* The trees a caller builds.  Each is built for either byte order.        *)
(***************************************************************************)
Fld(tag, type, count, data) ==
    [Tag |-> tag, Type |-> type, Count |-> U32(count), Data |-> data]

RECURSIVE ShortData(_, _)
ShortData(order, vals) ==
    IF vals = <<>> THEN <<>>
    ELSE Bytes16(order, Head(vals)) \o ShortData(order, Tail(vals))

RECURSIVE LongData(_, _)
LongData(order, vals) ==
    IF vals = <<>> THEN <<>>
    ELSE Bytes32(order, U32(Head(vals))) \o LongData(order, Tail(vals))

\* NewIFDNodeTIFF(space) with its IFD, sub-IFDs and next node filled in.
TIFFNode(order, space, fields, imageData, subs, next) ==
    [Order |-> order, Fields |-> fields, ImageData |-> imageData, Space |-> space,
     Rec |-> "TIFF", Label |-> <<>>, SubIFDs |-> subs, Next |-> next]

\* A maker note node: rec names its SpaceRec, label is a Nikon2SpaceRec's label.
MakerNode(order, space, rec, label, fields) ==
    [Order |-> order, Fields |-> fields, ImageData |-> <<>>, Space |-> space,
     Rec |-> rec, Label |-> label, SubIFDs |-> <<>>, Next |-> <<>>]

Sub(tag, node) == [Tag |-> tag, Node |-> node]

Image(offsetTag, sizeTag, segments) ==
    [OffsetTag |-> offsetTag, SizeTag |-> sizeTag, Segments |-> segments]

CompressionField(order, v) == Fld(Compression, SHORT, 1, ShortData(order, <<v>>))

\* "abcd" and "NIKON", NUL-terminated.
MakeAbcd == Fld(Make, ASCII, 5, <<97, 98, 99, 100, 0>>)

MakeNikon == Fld(Make, ASCII, 6, <<78, 73, 75, 79, 78, 0>>)

ModelAbcd == Fld(Model, ASCII, 5, <<97, 98, 99, 100, 0>>)

Leaf(order, v) == TIFFNode(order, TIFFSpace, <<CompressionField(order, v)>>, <<>>, <<>>, <<>>)

nikon2Label == <<78, 105, 107, 111, 110, 0, 2, 0, 0, 0>>

\* An Exif IFD under the root whose maker note field stands for the maker
\* note node mk; size is the serialized size of the maker note.
WithMakerNote(order, rootFields, mk) ==
    TIFFNode(order, TIFFSpace,
             rootFields \o <<Fld(ExifIFD, LONG, 1, Zeros(4))>>, <<>>,
             <<Sub(ExifIFD,
                   TIFFNode(order, ExifSpace,
                            <<Fld(makerNote, UNDEFINED, NodeSize(mk), Zeros(NodeSize(mk)))>>,
                            <<>>, <<Sub(makerNote, mk)>>, <<>>))>>,
             <<>>)

TreeNames ==
    {"single", "chain", "subifds", "subnext", "odd", "strips", "emptynext",
     "unsorted", "unsortedimg", "dup", "tilefree", "subshort",
     "oddmix", "nikon1", "nikon2", "nikonplain", "panasonic"}

TreeOf(name, o) ==
    CASE name = "single" -> Leaf(o, 1)
      [] name = "chain" ->
             TIFFNode(o, TIFFSpace, <<CompressionField(o, 1)>>, <<>>, <<>>, <<Leaf(o, 2)>>)
      [] name = "subifds" ->
             TIFFNode(o, TIFFSpace, <<Fld(SubIFDs, IFD, 2, Zeros(8))>>, <<>>,
                      <<Sub(SubIFDs, Leaf(o, 1)), Sub(SubIFDs, Leaf(o, 2))>>, <<>>)
      [] name = "subnext" ->
             TIFFNode(o, TIFFSpace, <<Fld(SubIFDs, LONG, 1, Zeros(4))>>, <<>>,
                      <<Sub(SubIFDs,
                            TIFFNode(o, TIFFSpace, <<CompressionField(o, 1)>>, <<>>, <<>>,
                                     <<Leaf(o, 2)>>))>>,
                      <<Leaf(o, 3)>>)
      [] name = "odd" -> TIFFNode(o, TIFFSpace, <<MakeAbcd, ModelAbcd>>, <<>>, <<>>, <<>>)
      [] name = "strips" ->
             TIFFNode(o, TIFFSpace,
                      <<Fld(StripOffsets, SHORT, 2, Zeros(4)),
                        Fld(StripByteCounts, SHORT, 2, ShortData(o, <<3, 2>>))>>,
                      <<Image(StripOffsets, StripByteCounts, <<<<1, 2, 3>>, <<4, 5>>>>)>>,
                      <<>>, <<>>)
      [] name = "emptynext" ->
             TIFFNode(o, TIFFSpace, <<>>, <<>>, <<>>, <<Leaf(o, 1)>>)
      [] name = "unsorted" ->
             TIFFNode(o, TIFFSpace, <<MakeAbcd, CompressionField(o, 1)>>, <<>>, <<>>, <<>>)
      [] name = "unsortedimg" ->
             TIFFNode(o, TIFFSpace, <<MakeAbcd, CompressionField(o, 1)>>,
                      <<Image(StripOffsets, StripByteCounts, <<<<1, 2>>>>)>>, <<>>, <<>>)
      [] name = "dup" ->
             TIFFNode(o, TIFFSpace, <<CompressionField(o, 1), CompressionField(o, 2)>>,
                      <<>>, <<>>, <<>>)
      [] name = "tilefree" ->
             TIFFNode(o, TIFFSpace,
                      <<Fld(FreeOffsets, LONG, 1, Zeros(4)),
                        Fld(FreeByteCounts, LONG, 1, LongData(o, <<2>>)),
                        Fld(TileOffsets, SHORT, 2, Zeros(4)),
                        Fld(TileByteCounts, SHORT, 2, ShortData(o, <<2, 2>>))>>,
                      <<Image(TileOffsets, TileByteCounts, <<<<1, 2>>, <<3, 4>>>>),
                        Image(FreeOffsets, FreeByteCounts, <<<<5, 6>>>>)>>,
                      <<>>, <<>>)
      [] name = "subshort" ->
             TIFFNode(o, TIFFSpace, <<Fld(SubIFDs, SHORT, 1, Zeros(2))>>, <<>>,
                      <<Sub(SubIFDs, Leaf(o, 1))>>, <<>>)
      [] name = "oddmix" ->
             TIFFNode(o, TIFFSpace,
                      <<MakeAbcd,
                        Fld(StripOffsets, LONG, 1, Zeros(4)),
                        Fld(StripByteCounts, LONG, 1, LongData(o, <<3>>)),
                        Fld(SubIFDs, LONG, 1, Zeros(4))>>,
                      <<Image(StripOffsets, StripByteCounts, <<<<1, 2, 3>>>>)>>,
                      <<Sub(SubIFDs, Leaf(o, 1))>>, <<Leaf(o, 2)>>)
      [] name = "nikon1" ->
             WithMakerNote(o, <<>>,
                 MakerNode(o, Nikon1Space, "Nikon1", <<>>, <<Fld(2, SHORT, 1, ShortData(o, <<7>>))>>))
      [] name = "nikon2" ->
             WithMakerNote(o, <<>>,
                 MakerNode(o, Nikon2Space, "Nikon2", nikon2Label,
                           <<Fld(Nikon2MakerNoteVersion, UNDEFINED, 4, <<48, 50, 48, 48>>)>>))
      [] name = "nikonplain" ->
             WithMakerNote(o, <<MakeNikon>>,
                 MakerNode(o, Nikon2Space, "Nikon2", <<>>,
                           <<Fld(Nikon2MakerNoteVersion, UNDEFINED, 4, <<48, 50, 48, 48>>)>>))
      [] name = "panasonic" ->
             WithMakerNote(o, <<>>,
                 MakerNode(o, Panasonic1Space, "Panasonic1", <<>>,
                           <<Fld(2, SHORT, 1, ShortData(o, <<7>>))>>))

(***************************************************************************)
(* The caller serializes a tree as the repacking driver and the tests do:  *)
(* a buffer of HeaderSize + TreeSize() zero bytes, PutHeader at its start  *)
(* and PutIFDTree at HeaderSize.                                           *)
(***************************************************************************)
TreeInit ==
    /\ \E name \in TreeNames, o \in Orders : tree = TreeOf(name, o)
    /\ wres = NoCall
    /\ edits = <<>>
    /\ pbuf = <<>>
    /\ pc = "built"
    /\ ctx = NoContext
    /\ outer = <<>>
    /\ stack = <<>>
    /\ call = NoCall
    /\ hist = NoHistory
    /\ pres = NoCall
    /\ HeaderIdle
    /\ DataIdle

SerializedAs(size, r) ==
    [kind |-> "PutIFDTree", size |-> size,
     st |-> IF r.w.panic THEN "panic" ELSE IF r.err # NoErr THEN "err" ELSE "ok",
     err |-> r.err, end |-> r.pos, w |-> r.w]

Serialized(t) ==
    SerializedAs(HeaderSize + TreeSize(t),
                 PutIFDTree([NewWriter(HeaderSize + TreeSize(t)) EXCEPT !.buf =
                                 PutHeader(NewWriter(HeaderSize + TreeSize(t)).buf,
                                           t.Order, U32(HeaderSize)).buf],
                            t, HeaderSize))

Serialize ==
    /\ pc = "built"
    /\ wres' = Serialized(tree)
    /\ pbuf' = wres'.w.buf
    /\ pc' = "written"
    /\ UNCHANGED <<tree, ctx, outer, stack, call, hist, pres, hdrVars, dataVars,
                 edits>>


(***************************************************************************)
(* The parser.  GetIFDTree walks the IFDs by recursion; here every         *)
(* getIFDTreeIter call that is running is a frame of stack, the call being *)
(* made is in call, and one step of the walk is one action.  A frame holds *)
(* the position and namespace of its IFD, the IFD and next pointer GetIFD  *)
(* returned, the index i of the field the loop is at, the index j of the   *)
(* pointer within that field, the sub-IFDs and next node collected so far, *)
(* the link by which its node hangs on the caller's node, and its stage.   *)
(* ctx belongs to the GetIFDTree call that is running: the start of its    *)
(* slice in the buffer, its byte order, its map of visited positions, its  *)
(* maker note data and, once the walk is over, the tree and error it is    *)
(* about to return.  hist records every IFD read of the whole parse by     *)
(* slice length and position, and whether a call was ever made for an IFD  *)
(* that had been read before.                                              *)
(***************************************************************************)
\* errors.New(msg), told apart from a GetIFDError by its field.
ErrorsNew(msg) == [msg |-> msg]

ErrLoop == ErrorsNew("GetIFDTreeIter: IFD reference loop detected")

ErrNikon2Header == ErrorsNew("TIFF header not found in Nikon2 maker note")

NewContext(base, order) == [NoContext EXCEPT !.base = base, !.order = order]

Slice == SubSeq(pbuf, ctx.base + 1, Len(pbuf))

Range(q) == {q[k] : k \in 1..Len(q)}

HasPrefix(b, prefix) == Len(b) >= Len(prefix) /\ SubSeq(b, 1, Len(prefix)) = prefix

ToLower(str) == [k \in 1..Len(str) |-> IF str[k] >= 65 /\ str[k] <= 90 THEN str[k] + 32 ELSE str[k]]

\* Field.ASCII: the data without one trailing NUL; indexing the last byte of
\* empty data panics.
FieldASCII(f) ==
    IF Len(f.Data) = 0 THEN GetPanic
    ELSE IF f.Data[Len(f.Data)] = 0 THEN Got(SubSeq(f.Data, 1, Len(f.Data) - 1))
    ELSE Got(f.Data)

NextSpace(space) ==
    IF space = ExifSpace THEN TIFFSpace
    ELSE IF space = MPFIndexSpace THEN MPFAttributeSpace
    ELSE space

\* The node at the end of a path of links from the root gets one more sub-IFD.
RECURSIVE AppendSubAt(_, _, _)
AppendSubAt(node, path, sub) ==
    IF path = <<>> THEN [node EXCEPT !.SubIFDs = Append(node.SubIFDs, sub)]
    ELSE IF Head(path).kind = "next"
    THEN [node EXCEPT !.Next = <<AppendSubAt(node.Next[1], Tail(path), sub)>>]
    ELSE [node EXCEPT !.SubIFDs[Head(path).index].Node =
              AppendSubAt(node.SubIFDs[Head(path).index].Node, Tail(path), sub)]

\* The caller's GetHeader and GetIFDTree(buf, order, ifdPos, TIFFSpace) on the
\* buffer as it is.
ParseStart ==
    /\ pc \in {"written", "patched"}
    /\ wres.st = "ok"
    /\ LET hdr == GetHeader(pbuf)
       IN  IF hdr.panic \/ ~hdr.valid
           THEN /\ pres' = [kind |-> "GetHeader", panic |-> hdr.panic, valid |-> FALSE,
                            err |-> <<>>, tree |-> <<>>]
                /\ pc' = "done"
                /\ UNCHANGED <<ctx, call>>
           ELSE /\ ctx' = NewContext(0, hdr.order)
                /\ call' = [pos |-> hdr.ifdPos, space |-> TIFFSpace, link |-> [kind |-> "root"]]
                /\ pc' = "parsing"
                /\ pres' = pres
    /\ UNCHANGED <<tree, wres, pbuf, outer, stack, hist, hdrVars, dataVars,
                 edits>>

\* A run-time panic ends the parse; nothing is returned.
ParsePanics ==
    /\ pres' = [kind |-> "GetIFDTree", panic |-> TRUE, valid |-> TRUE,
                err |-> <<>>, tree |-> <<>>]
    /\ pc' = "done"
    /\ stack' = <<>>
    /\ call' = NoCall
    /\ ctx' = ctx

\* An error in the walk: every getIFDTreeIter call that is running returns
\* (nil, err), and so does the GetIFDTree call.
WalkFails(c, err) ==
    /\ ctx' = [c EXCEPT !.tree = <<>>, !.err = <<err>>]
    /\ stack' = <<>>
    /\ call' = NoCall
    /\ pc' = "finish"
    /\ pres' = pres

\* getIFDTreeIter after GetIFD returned r for the IFD of the call.
Entered(r) ==
    IF r.panic THEN ParsePanics
    ELSE IF r.err # <<>> THEN WalkFails([ctx EXCEPT !.seen = ctx.seen \cup {call.pos}], r.err[1])
    ELSE /\ ctx' = [ctx EXCEPT !.seen = ctx.seen \cup {call.pos}]
         /\ stack' = Append(stack,
                [pos |-> call.pos, space |-> call.space, ifd |-> r.ifd,
                 next |-> r.next, makerNotePos |-> r.makerNotePos,
                 i |-> 1, j |-> 0, subs |-> <<>>, nextNode |-> <<>>,
                 link |-> call.link, stage |-> "fields"])
         /\ call' = NoCall
         /\ UNCHANGED <<pc, pres>>

\* The IFD at a position of a slice is read: the history of the parse.
Read(key) ==
    [reads |-> Append(hist.reads, key),
     revisit |-> hist.revisit \/ key \in Range(hist.reads)]

\* getIFDTreeIter is entered: the loop test, the mark in the map and GetIFD.
Enter ==
    /\ pc = "parsing"
    /\ call # NoCall
    /\ IF call.pos \in ctx.seen
       THEN /\ WalkFails(ctx, ErrLoop)
            /\ hist' = [hist EXCEPT !.revisit = TRUE]
       ELSE /\ hist' = Read(<<Len(Slice), call.pos>>)
            /\ Entered(GetIFD(Slice, ctx.order, call.pos,
                              IF call.space = TIFFSpace THEN TIFFImageData ELSE <<>>,
                              call.space = ExifSpace))
    /\ UNCHANGED <<tree, wres, pbuf, outer, hdrVars, dataVars,
                 edits>>

Top == stack[Len(stack)]

SetTop(frame) == [stack EXCEPT ![Len(stack)] = frame]

\* The links that lead from the root to the node of the running call.
PathToTop ==
    [k \in 1..(Len(stack) - 1) |->
        IF stack[k + 1].link.kind = "next" THEN [kind |-> "next"]
        ELSE [kind |-> "sub", index |-> Len(stack[k].subs) + 1]]

\* One turn of the loop over node.Fields: a pointer field calls
\* getIFDTreeIter for its jth pointer, any other field may feed the maker
\* note data.
FieldStep ==
    /\ pc = "parsing"
    /\ call = NoCall
    /\ stack # <<>>
    /\ Top.stage = "fields"
    /\ Top.i <= Len(Top.ifd.Fields)
    /\ LET f == Top.ifd.Fields[Top.i]
           long == Long(f, Top.j, ctx.order)
           str == FieldASCII(f)
           over == [Top EXCEPT !.i = Top.i + 1, !.j = 0]
       IN  IF IsIFD(f, Top.space)
           THEN IF ~Lt32(U32(Top.j), f.Count)
                THEN /\ stack' = SetTop(over)
                     /\ UNCHANGED <<ctx, call, pc, pres>>
                ELSE IF long.panic THEN ParsePanics
                ELSE /\ call' = [pos |-> long.val, space |-> SubSpace(Top.space, f.Tag),
                                 link |-> [kind |-> "sub", tag |-> f.Tag]]
                     /\ stack' = SetTop([Top EXCEPT !.j = Top.j + 1])
                     /\ UNCHANGED <<ctx, pc, pres>>
           ELSE IF Top.space = TIFFSpace /\ f.Tag \in {Make, Model}
           THEN IF str.panic THEN ParsePanics
                ELSE /\ ctx' = IF f.Tag = Make THEN [ctx EXCEPT !.maker.make = str.val]
                               ELSE [ctx EXCEPT !.maker.model = str.val]
                     /\ stack' = SetTop(over)
                     /\ UNCHANGED <<call, pc, pres>>
           ELSE /\ ctx' = IF Top.space = ExifSpace /\ f.Tag = makerNote
                          THEN [ctx EXCEPT !.maker.position = Top.makerNotePos,
                                           !.maker.exifPath = PathToTop]
                          ELSE ctx
                /\ stack' = SetTop(over)
                /\ UNCHANGED <<call, pc, pres>>
    /\ UNCHANGED <<tree, wres, pbuf, outer, hist, hdrVars, dataVars,
                 edits>>

\* After the fields: a next pointer other than 0 calls getIFDTreeIter.
NextStep ==
    /\ pc = "parsing"
    /\ call = NoCall
    /\ stack # <<>>
    /\ Top.stage = "fields"
    /\ Top.i > Len(Top.ifd.Fields)
    /\ stack' = SetTop([Top EXCEPT !.stage = "return"])
    /\ call' = IF Top.next # Zero32
               THEN [pos |-> Top.next, space |-> NextSpace(Top.space),
                     link |-> [kind |-> "next"]]
               ELSE NoCall
    /\ UNCHANGED <<tree, wres, pbuf, ctx, outer, hist, pc, pres, hdrVars, dataVars,
                 edits>>

\* getIFDTreeIter returns its node: to the call that made it, which hangs it
\* on its own node, or to GetIFDTree.
Return ==
    /\ pc = "parsing"
    /\ call = NoCall
    /\ stack # <<>>
    /\ Top.stage = "return"
    /\ LET node == [Order |-> Top.ifd.Order, Fields |-> Top.ifd.Fields,
                    ImageData |-> Top.ifd.ImageData, Space |-> Top.space,
                    Rec |-> "TIFF", Label |-> <<>>, SubIFDs |-> Top.subs,
                    Next |-> Top.nextNode]
           n == Len(stack)
           caller == stack[n - 1]
       IN  IF n = 1
           THEN /\ ctx' = [ctx EXCEPT !.tree = <<node>>]
                /\ stack' = <<>>
                /\ pc' = "maker"
           ELSE /\ stack' = [SubSeq(stack, 1, n - 1) EXCEPT ![n - 1] =
                                 IF Top.link.kind = "next"
                                 THEN [caller EXCEPT !.nextNode = <<node>>]
                                 ELSE [caller EXCEPT !.subs =
                                          Append(caller.subs, Sub(Top.link.tag, node))]]
                /\ UNCHANGED <<ctx, pc>>
    /\ UNCHANGED <<tree, wres, pbuf, outer, call, hist, pres, hdrVars, dataVars,
                 edits>>


\* getMakerNote for a maker note whose IFD follows its label (Nikon1,
\* Panasonic1), after GetIFD returned r for it.
LabelledMakerNote(rec, space, r) ==
    IF r.panic THEN ParsePanics
    ELSE /\ pc' = "finish"
         /\ UNCHANGED <<stack, call, pres>>
         /\ ctx' = IF r.err # <<>> THEN [ctx EXCEPT !.err = r.err]
                   ELSE [ctx EXCEPT !.tree =
                            <<AppendSubAt(ctx.tree[1], ctx.maker.exifPath,
                                  Sub(makerNote,
                                      [Order |-> r.ifd.Order, Fields |-> r.ifd.Fields,
                                       ImageData |-> r.ifd.ImageData, Space |-> space,
                                       Rec |-> rec, Label |-> <<>>, SubIFDs |-> <<>>,
                                       Next |-> <<>>]))>>]

\* getMakerNote for a Nikon2 maker note with a label, after GetHeader returned
\* hdr for what follows the label: GetIFDTree is called for it.
Nikon2MakerNote(label, start, hdr) ==
    IF hdr.panic THEN ParsePanics /\ UNCHANGED outer
    ELSE IF ~hdr.valid
    THEN /\ ctx' = [ctx EXCEPT !.err = <<ErrNikon2Header>>]
         /\ pc' = "finish"
         /\ UNCHANGED <<stack, call, pres, outer>>
    ELSE /\ outer' = Append(outer, [ctx |-> ctx, kind |-> "labelled", label |-> label])
         /\ ctx' = NewContext(ctx.base + start, hdr.order)
         /\ call' = [pos |-> hdr.ifdPos, space |-> Nikon2Space, link |-> [kind |-> "root"]]
         /\ pc' = "parsing"
         /\ UNCHANGED <<stack, pres>>

\* GetIFDTree after the walk, and getMakerNote up to its return or to the
\* GetIFDTree call it makes for a Nikon2 maker note.
MakerStep ==
    /\ pc = "maker"
    /\ LET m == ctx.maker
           buf == Slice
           rest == SubSeq(buf, m.position + 1, Len(buf))
           isNikon1 == HasPrefix(rest, nikon1Label)
           label == IF isNikon1 THEN nikon1Label ELSE panasonicLabel
           ifdPos == Add32(U32(m.position), U32(Len(label)))
           labelLen == Len(nikon2LabelPrefix) + 4
           quiet == UNCHANGED <<ctx, outer, hist, stack, call, pres>>
       IN  IF m.position = 0
           THEN pc' = "finish" /\ quiet
           ELSE IF m.position > Len(buf)
           THEN ParsePanics /\ UNCHANGED <<outer, hist>>
           ELSE IF isNikon1
                   \/ (~HasPrefix(rest, nikon2LabelPrefix) /\ HasPrefix(rest, panasonicLabel))
           THEN /\ hist' = Read(<<Len(buf), ifdPos>>)
                /\ outer' = outer
                /\ LabelledMakerNote(IF isNikon1 THEN "Nikon1" ELSE "Panasonic1",
                                     IF isNikon1 THEN Nikon1Space ELSE Panasonic1Space,
                                     GetIFD(buf, ctx.order, ifdPos, <<>>, FALSE))
           ELSE IF HasPrefix(rest, nikon2LabelPrefix)
           THEN IF m.position + labelLen > Len(buf)
                THEN ParsePanics /\ UNCHANGED <<outer, hist>>
                ELSE /\ hist' = hist
                     /\ Nikon2MakerNote(SubSeq(buf, m.position + 1, m.position + labelLen),
                                        m.position + labelLen,
                                        GetHeader(SubSeq(buf, m.position + labelLen + 1,
                                                         Len(buf))))
           ELSE IF HasPrefix(ToLower(m.make), <<110, 105, 107, 111, 110>>)
           THEN IF m.position >= Len(buf)
                THEN ParsePanics /\ UNCHANGED <<outer, hist>>
                ELSE /\ outer' = Append(outer, [ctx |-> ctx, kind |-> "plain",
                                                label |-> <<>>])
                     /\ ctx' = NewContext(ctx.base, IF At(buf, m.position) = 0
                                                    THEN BigEndian ELSE LittleEndian)
                     /\ call' = [pos |-> U32(m.position), space |-> Nikon2Space,
                                 link |-> [kind |-> "root"]]
                     /\ pc' = "parsing"
                     /\ UNCHANGED <<stack, pres, hist>>
           ELSE pc' = "finish" /\ quiet
    /\ UNCHANGED <<tree, wres, pbuf, hdrVars, dataVars,
                 edits>>

\* GetIFDTree returns: to the caller, or to the getMakerNote that called it,
\* which hangs the maker note on the Exif node and returns in its turn.
ReturnTree ==
    /\ pc = "finish"
    /\ LET o == outer[Len(outer)]
           node == ctx.tree[1]
           version == FindFields(node, <<Nikon2MakerNoteVersion>>)
           accepted == \/ o.kind = "labelled"
                       \/ /\ Len(version) = 1
                          /\ node.Fields[version[1]].Type = UNDEFINED
                          /\ node.Fields[version[1]].Count = U32(4)
           made == [node EXCEPT !.Space = Nikon2Space, !.Rec = "Nikon2", !.Label = o.label]
       IN  IF outer = <<>>
           THEN /\ pres' = [kind |-> "GetIFDTree", panic |-> FALSE, valid |-> TRUE,
                            err |-> ctx.err, tree |-> ctx.tree]
                /\ pc' = "done"
                /\ UNCHANGED <<ctx, outer>>
           ELSE /\ outer' = SubSeq(outer, 1, Len(outer) - 1)
                /\ ctx' = IF ctx.err # <<>> THEN [o.ctx EXCEPT !.err = ctx.err]
                          ELSE IF accepted
                          THEN [o.ctx EXCEPT !.tree =
                                   <<AppendSubAt(o.ctx.tree[1], o.ctx.maker.exifPath,
                                                 Sub(makerNote, made))>>]
                          ELSE o.ctx
                /\ UNCHANGED <<pc, pres>>
    /\ UNCHANGED <<tree, wres, pbuf, stack, call, hist, hdrVars, dataVars,
                 edits>>

(***************************************************************************)
(* Input that no serializer wrote: the buffer with one 16-bit word         *)
(* overwritten or with bytes missing at its end.                           *)
(***************************************************************************)
PatchVals == {0, 3, 8, 65535}

MaxCut == 2

Patch ==
    /\ pc = "written"
    /\ wres.st = "ok"
    /\ \E p \in HeaderSize..(Len(pbuf) - 2), v \in PatchVals :
          /\ p % 2 = 0
          /\ pbuf' = PutUint16(tree.Order, pbuf, p, v)
    /\ pbuf' # pbuf
    /\ pc' = "patched"
    /\ UNCHANGED <<tree, wres, ctx, outer, stack, call, hist, pres, hdrVars, dataVars,
                 edits>>

Truncate ==
    /\ pc = "written"
    /\ wres.st = "ok"
    /\ \E k \in 1..MaxCut : pbuf' = SubSeq(pbuf, 1, Len(pbuf) - k)
    /\ pc' = "patched"
    /\ UNCHANGED <<tree, wres, ctx, outer, stack, call, hist, pres, hdrVars, dataVars,
                 edits>>

ParserStep == Enter \/ FieldStep \/ NextStep \/ Return \/ MakerStep \/ ReturnTree

Next == Serialize \/ Patch \/ Truncate \/ ParseStart \/ ParserStep

Spec == TreeInit /\ [][Next]_vars


(***************************************************************************)
(* Properties.                                                             *)
(***************************************************************************)
Written == pc # "built"

Unpatched == pbuf = wres.w.buf

ParseEnded == pc = "done"

\* GetIFDTree returned to the caller (it did not panic).
Returned == ParseEnded /\ pres.kind = "GetIFDTree" /\ ~pres.panic

RECURSIVE AscendingTags(_)
AscendingTags(node) ==
    /\ \A k \in 1..(Len(node.Fields) - 1) : node.Fields[k].Tag < node.Fields[k + 1].Tag
    /\ \A k \in 1..Len(node.SubIFDs) : AscendingTags(node.SubIFDs[k].Node)
    /\ node.Next # <<>> => AscendingTags(node.Next[1])

\* A field whose data is positions in the file: its values are the places
\* the serializer chose, not values of the tree.
HoldsPositions(node, f) ==
    \/ IsIFD(f, node.Space)
    \/ \E k \in 1..Len(node.ImageData) : node.ImageData[k].OffsetTag = f.Tag
    \/ \E k \in 1..Len(node.SubIFDs) : node.SubIFDs[k].Tag = f.Tag

SameField(node, f, g) ==
    /\ f.Tag = g.Tag
    /\ f.Type = g.Type
    /\ f.Count = g.Count
    /\ HoldsPositions(node, f) \/ f.Data = g.Data

\* Structural equality of trees: the same fields in every node, the same
\* image data, the same sub-IFDs under the same tags in the same order, the
\* same next chain.
RECURSIVE SameTree(_, _)
SameTree(a, b) ==
    /\ a.Order = b.Order
    /\ a.Space = b.Space
    /\ a.Rec = b.Rec
    /\ a.Label = b.Label
    /\ Len(a.Fields) = Len(b.Fields)
    /\ \A k \in 1..Len(a.Fields) : SameField(a, a.Fields[k], b.Fields[k])
    /\ a.ImageData = b.ImageData
    /\ Len(a.SubIFDs) = Len(b.SubIFDs)
    /\ \A k \in 1..Len(a.SubIFDs) :
          /\ a.SubIFDs[k].Tag = b.SubIFDs[k].Tag
          /\ SameTree(a.SubIFDs[k].Node, b.SubIFDs[k].Node)
    /\ (a.Next = <<>>) = (b.Next = <<>>)
    /\ a.Next # <<>> /\ b.Next # <<>> => SameTree(a.Next[1], b.Next[1])

ParsedBack == Returned /\ pres.err = <<>> /\ pres.tree # <<>> /\ SameTree(tree, pres.tree[1])

\* C1: a tree whose fields are in ascending tag order in every node, serialized
\* with PutHeader and PutIFDTree into a buffer of HeaderSize + TreeSize bytes
\* and parsed with GetHeader and GetIFDTree, comes back without a panic or an
\* error as a structurally equal tree.
RoundTrip ==
    AscendingTags(tree) =>
        /\ Written => wres.st # "panic"
        /\ ParseEnded /\ Unpatched => ParsedBack


NoIFDReadTwice ==
    \A i, j \in 1..Len(hist.reads) : hist.reads[i] = hist.reads[j] => i = j

\* The error that reports a cycle is on its way to the caller, or with it.
CycleReported ==
    IF ParseEnded THEN Returned /\ pres.err = <<ErrLoop>> ELSE ctx.err = <<ErrLoop>>

\* C2: when a pointer of the parse resolves to an IFD position of the same
\* slice that was visited before, the IFD is not read again and GetIFDTree
\* returns the error that reports a cycle.
CycleRejection == hist.revisit => NoIFDReadTwice /\ CycleReported

IsFieldDataError(err) ==
    err # <<>> /\ "ErrType" \in DOMAIN err[1] /\ err[1].ErrType = ErrFieldData

\* C3: when the data of a field lies past the end of the buffer, GetIFDTree
\* returns the error for it together with a tree, the tree of what could be
\* read.
PartialParse == Returned /\ IsFieldDataError(pres.err) => pres.tree # <<>>

\* C4: PutIFDTree at HeaderSize on a buffer of HeaderSize + TreeSize bytes
\* makes no access outside the buffer (none that panics, none that a copy cuts
\* short) and the end position it returns is at most HeaderSize + TreeSize.
BufferSufficiency ==
    Written =>
        /\ ~(wres.w.panic /\ wres.w.why = "buf")
        /\ ~wres.w.trunc
        /\ wres.st # "panic" => wres.end <= wres.size

\* A tree with sub-IFDs, a next IFD and external data was written and filled
\* the buffer to its last byte.
BufferSufficiencyWitness ==
    /\ Written
    /\ wres.st = "ok"
    /\ wres.end = wres.size
    /\ tree.SubIFDs # <<>>
    /\ tree.Next # <<>>
    /\ \E o \in wres.w.offs : o.what = "sub"

\* C5: every offset the serializer stores in its output (IFD positions,
\* sub-IFD pointers, next pointers, external data offsets, segment offsets)
\* is even.
Alignment == Written => \A o \in wres.w.offs : o.off % 2 = 0

Decreasing(tags) == \E k \in 1..(Len(tags) - 1) : tags[k] > tags[k + 1]

\* C6: whenever Put returns for an IFD whose tags are somewhere decreasing it
\* returns an error, and it returns the tags-out-of-order error only for such
\* an IFD: never for tags that are non-decreasing, equal adjacent tags
\* included.
MonotoneTags ==
    Written =>
        \A k \in 1..Len(wres.w.puts) :
            /\ Decreasing(wres.w.puts[k].tags) => wres.w.puts[k].err # NoErr
            /\ wres.w.puts[k].err = ErrTagOrder => Decreasing(wres.w.puts[k].tags)

\* Put refused an IFD with the tags-out-of-order error, and the serializer
\* with it.
MonotoneTagsWitness ==
    /\ Written
    /\ wres.st = "err"
    /\ \E k \in 1..Len(wres.w.puts) :
          wres.w.puts[k].err = ErrTagOrder /\ Decreasing(wres.w.puts[k].tags)

\* C6 as stated: Put returns the tags-out-of-order error for exactly the IFDs
\* whose tags are somewhere decreasing.
MonotoneTagsAsStated ==
    Written =>
        \A k \in 1..Len(wres.w.puts) :
            Decreasing(wres.w.puts[k].tags) <=> wres.w.puts[k].err = ErrTagOrder

\* C7: every call of GetIFDTree ends by returning to its caller, after reading
\* no more IFDs than the buffer has positions.
Termination ==
    ParseEnded /\ pres.kind = "GetIFDTree" =>
        ~pres.panic /\ Len(hist.reads) <= Len(pbuf)


(***************************************************************************)
(* ASCII fields driven by a caller: a field of type ASCII whose data is    *)
(* any string of up to MaxTextLen bytes (none included, as in a field of   *)
(* count 0) receives PutASCII and ASCII calls in any order.  Strings are   *)
(* sequences of bytes over NUL and one letter.                             *)
(***************************************************************************)
MaxTextLen == 3

TextBytes == {0, 97}

Strings == UNION {[1..n -> TextBytes] : n \in 0..MaxTextLen}

\* A PutASCII that stores the text without its terminator.
PutASCIIUnterminated(f, val) == Wrote(val)

PutASCII(f, val) == Wrote(Store(Store(Zeros(Len(val) + 1), 0, val), Len(val), <<0>>))

TextInit ==
    /\ \E d \in Strings : field = [Tag |-> Make, Type |-> ASCII, Count |-> U32(Len(d)),
                                   Data |-> d]
    /\ lastPut = NoCall
    /\ lastGet = NoCall
    /\ HeaderIdle
    /\ TreeIdle

PutASCIIAct ==
    /\ \E val \in Strings :
          /\ field' = [field EXCEPT !.Data = PutASCII(field, val).Data]
          /\ lastPut' = [kind |-> "ASCII", val |-> val]
    /\ lastGet' = NoCall
    /\ UNCHANGED <<hdrVars, treeVars>>

ASCIIAct ==
    /\ lastGet = NoCall
    /\ lastGet' = [kind |-> "ASCII", on |-> field.Data, panic |-> FieldASCII(field).panic,
                   val |-> FieldASCII(field).val]
    /\ UNCHANGED <<field, lastPut, hdrVars, treeVars>>

TextNext == PutASCIIAct \/ ASCIIAct

SpecText == TextInit /\ [][TextNext]_vars

\* C11: after PutASCII(s) the field has exactly len(s)+1 data bytes, the
\* bytes of s followed by one NUL, and a following ASCII() returns exactly s,
\* for every string s: the empty one and those with interior or trailing
\* NULs included.
ASCIIRoundTrip ==
    lastPut # NoCall =>
        /\ Len(field.Data) = Len(lastPut.val) + 1
        /\ field.Data[Len(field.Data)] = 0
        /\ SubSeq(field.Data, 1, Len(lastPut.val)) = lastPut.val
        /\ lastGet # NoCall => ~lastGet.panic /\ lastGet.val = lastPut.val

\* A string with a leading, an interior and a trailing NUL was stored over
\* other data and read back.
ASCIIRoundTripWitness ==
    /\ lastPut # NoCall
    /\ lastPut.val = <<0, 97, 0>>
    /\ lastGet # NoCall
    /\ lastGet.on = <<0, 97, 0, 0>>
    /\ lastGet.val = <<0, 97, 0>>

\* C12: ASCII() on a field whose data is empty returns the empty string and
\* does not fail.
ASCIIOfEmpty ==
    (lastGet # NoCall /\ lastGet.on = <<>>) => ~lastGet.panic /\ lastGet.val = <<>>


(***************************************************************************)
(* The type-erased accessors.  An int64 v is the pair <<v \div 2^16,       *)
(* v % 2^16>>, its upper part signed and its lower part in 0..65535.  A    *)
(* 64-bit word is four 16-bit parts, most significant first.  A floating   *)
(* point value is                                                          *)
(* one of a few named values: "0.1" is the float64 nearest to 0.1 and      *)
(* "0.1f" the float32 nearest to it, which are different numbers; every    *)
(* other bit pattern reads as "other".                                     *)
(***************************************************************************)
Uint64(order, b, p) ==
    IF order = LittleEndian
    THEN Uint32(order, b, p + 4) \o Uint32(order, b, p)
    ELSE Uint32(order, b, p) \o Uint32(order, b, p + 4)

Bytes64(order, q) ==
    IF order = LittleEndian
    THEN Bytes32(order, <<q[3], q[4]>>) \o Bytes32(order, <<q[1], q[2]>>)
    ELSE Bytes32(order, <<q[1], q[2]>>) \o Bytes32(order, <<q[3], q[4]>>)

FloatVals == {"0", "1", "-2.5", "0.1", "0.1f"}

Float64bits(v) ==
    CASE v = "0" -> <<0, 0, 0, 0>>
      [] v = "1" -> <<16368, 0, 0, 0>>
      [] v = "-2.5" -> <<49156, 0, 0, 0>>
      [] v = "0.1" -> <<16313, 39321, 39321, 39322>>
      [] v = "0.1f" -> <<16313, 39321, 40960, 0>>

\* float32(val): the nearest float32.
ToFloat32(v) == IF v = "0.1" THEN "0.1f" ELSE v

Float32bits(v) ==
    CASE v = "0" -> <<0, 0>>
      [] v = "1" -> <<16256, 0>>
      [] v = "-2.5" -> <<49184, 0>>
      [] v = "0.1f" -> <<15820, 52429>>

Float64frombits(q) ==
    IF \E v \in FloatVals : Float64bits(v) = q
    THEN CHOOSE v \in FloatVals : Float64bits(v) = q
    ELSE "other"

Float32frombits(w) ==
    IF \E v \in FloatVals \ {"0.1"} : Float32bits(v) = w
    THEN CHOOSE v \in FloatVals \ {"0.1"} : Float32bits(v) = w
    ELSE "other"

Float(f, i, order) ==
    IF CanUint32(f.Data, i * 4)
    THEN Got(Float32frombits(Uint32(order, f.Data, i * 4)))
    ELSE GetPanic

PutFloat(f, val, i, order) ==
    IF CanUint32(f.Data, i * 4)
    THEN Wrote(PutUint32(order, f.Data, i * 4, Float32bits(val)))
    ELSE PutPanic(f.Data)

Double(f, i, order) ==
    IF i * 8 + 8 <= Len(f.Data)
    THEN Got(Float64frombits(Uint64(order, f.Data, i * 8)))
    ELSE GetPanic

PutDouble(f, val, i, order) ==
    IF i * 8 + 8 <= Len(f.Data)
    THEN Wrote(Store(f.Data, i * 8, Bytes64(order, Float64bits(val))))
    ELSE PutPanic(f.Data)

I64(v) == <<v \div 65536, v % 65536>>

\* int64(r) of a result r that is a number of up to 32 bits with its sign.
Widen64(r) == IF r.panic THEN r ELSE Got(I64(r.val))

\* int64(w) of an unsigned 32-bit word is the word: its upper part is not
\* negative.
AnyInteger(f, i, order) ==
    CASE f.Type = BYTE -> Widen64(Byte(f, i))
      [] f.Type = SHORT -> Widen64(Short(f, i, order))
      [] f.Type = LONG -> Long(f, i, order)
      [] f.Type = SBYTE -> Widen64(SByte(f, i))
      [] f.Type = SSHORT -> Widen64(SShort(f, i, order))
      [] f.Type = SLONG -> Widen64(SLong(f, i, order))
      [] OTHER -> GetPanic

\* uint32(val) of an int64.
Low32(val) == <<val[1] % 65536, val[2]>>

\* The conversions of an int64 cut it to the width of the target.
PutAnyInteger(f, val, i, order) ==
    CASE f.Type = BYTE -> PutByte(f, val[2] % 256, i)
      [] f.Type = SHORT -> PutShort(f, val[2], i, order)
      [] f.Type = LONG -> PutLong(f, Low32(val), i, order)
      [] f.Type = SBYTE -> PutSByte(f, U8ToInt8(val[2] % 256), i)
      [] f.Type = SSHORT -> PutSShort(f, U16ToInt16(val[2]), i, order)
      [] f.Type = SLONG -> PutSLong(f, U32ToInt32(Low32(val)), i, order)
      [] OTHER -> PutPanic(f.Data)

Widen64Pair(r) == IF r.panic THEN r ELSE Got(<<I64(r.val[1]), I64(r.val[2])>>)

AnyRational(f, i, order) ==
    CASE f.Type = RATIONAL -> Rational(f, i, order)
      [] f.Type = SRATIONAL -> Widen64Pair(SRational(f, i, order))
      [] OTHER -> GetPanic

\* The panic that follows the switch is reached from every case: no case
\* returns.
PutAnyRational(f, n, d, i, order) ==
    CASE f.Type = RATIONAL ->
             PutPanic(PutRational(f, Low32(n), Low32(d), i, order).Data)
      [] f.Type = SRATIONAL ->
             PutPanic(PutSRational(f, U32ToInt32(Low32(n)), U32ToInt32(Low32(d)),
                                   i, order).Data)
      [] OTHER -> PutPanic(f.Data)

AnyFloat(f, i, order) ==
    CASE f.Type = FLOAT -> Float(f, i, order)
      [] f.Type = DOUBLE -> Double(f, i, order)
      [] OTHER -> GetPanic

\* As in PutAnyRational, the panic follows every case.
PutAnyFloat(f, val, i, order) ==
    CASE f.Type = FLOAT -> PutPanic(PutFloat(f, ToFloat32(val), i, order).Data)
      [] f.Type = DOUBLE -> PutPanic(PutDouble(f, val, i, order).Data)
      [] OTHER -> PutPanic(f.Data)

(***************************************************************************)
(* The type-erased accessors driven by a caller: a field of any type with  *)
(* data of any length up to MaxDataLen receives one PutAny<X> call and     *)
(* then one Any<X> call of the same family at the same index.              *)
(***************************************************************************)
AnyTypes ==
    {BYTE, ASCII, SHORT, LONG, RATIONAL, SBYTE, UNDEFINED, SSHORT, SLONG, SRATIONAL,
     FLOAT, DOUBLE}

AnyIndices == {0, 1}

\* -1, 0, 100, 300, 70000 and 2^31 + 5.
AnyIntegerVals == {I64(-1), I64(0), I64(100), I64(300), I64(70000), <<32768, 5>>}

AnyRationalVals == {<<I64(1), I64(2)>>, <<I64(-1), I64(70000)>>}

AnyInit ==
    /\ \E t \in AnyTypes, n \in 0..MaxDataLen :
           field = [Tag |-> 0, Type |-> t, Count |-> U32(n \div TypeSize(t)),
                    Data |-> DataFill(n, 1)]
    /\ lastPut = NoCall
    /\ lastGet = NoCall
    /\ HeaderIdle
    /\ TreeIdle

PutAnyIntegerAct ==
    \E v \in AnyIntegerVals, i \in AnyIndices, order \in Orders :
        DidPut("AnyInteger", v, i, order, PutAnyInteger(field, v, i, order))

PutAnyRationalAct ==
    \E v \in AnyRationalVals, i \in AnyIndices, order \in Orders :
        DidPut("AnyRational", v, i, order, PutAnyRational(field, v[1], v[2], i, order))

PutAnyFloatAct ==
    \E v \in FloatVals, i \in AnyIndices, order \in Orders :
        DidPut("AnyFloat", v, i, order, PutAnyFloat(field, v, i, order))

AnyIntegerAct ==
    \E order \in Orders : DidGet("AnyInteger", order, AnyInteger(field, lastPut.i, order))

AnyRationalAct ==
    \E order \in Orders : DidGet("AnyRational", order, AnyRational(field, lastPut.i, order))

AnyFloatAct ==
    \E order \in Orders : DidGet("AnyFloat", order, AnyFloat(field, lastPut.i, order))

AnyNext ==
    \/ PutAnyIntegerAct \/ PutAnyRationalAct \/ PutAnyFloatAct
    \/ AnyIntegerAct \/ AnyRationalAct \/ AnyFloatAct

SpecAny == AnyInit /\ [][AnyNext]_vars

\* The family of accessors that matches a field type.
Matching(kind, t) ==
    CASE kind = "AnyInteger" -> t \in {BYTE, SHORT, LONG, SBYTE, SSHORT, SLONG}
      [] kind = "AnyRational" -> t \in {RATIONAL, SRATIONAL}
      [] kind = "AnyFloat" -> t \in {FLOAT, DOUBLE}

\* The values a field type can hold.
Representable(t, v) ==
    CASE t = BYTE -> v[1] = 0 /\ v[2] <= 255
      [] t = SHORT -> v[1] = 0
      [] t = LONG -> v[1] \in 0..65535
      [] t = SBYTE -> (v[1] = 0 /\ v[2] <= 127) \/ (v[1] = -1 /\ v[2] >= 65536 - 128)
      [] t = SSHORT -> (v[1] = 0 /\ v[2] <= 32767) \/ (v[1] = -1 /\ v[2] >= 32768)
      [] t = SLONG -> v[1] \in -32768..32767
      [] t = RATIONAL -> v[1][1] \in 0..65535 /\ v[2][1] \in 0..65535
      [] t = SRATIONAL -> v[1][1] \in -32768..32767 /\ v[2][1] \in -32768..32767
      [] t = FLOAT -> v # "0.1"
      [] t = DOUBLE -> TRUE

\* C13: PutAnyInteger, PutAnyRational and PutAnyFloat on a field whose type
\* matches, at an element that lies within the data, store the value and
\* return normally, and the matching Any<X> read in the same byte order then
\* returns the stored value.
AnyDispatch ==
    (/\ lastPut # NoCall
     /\ Matching(lastPut.kind, field.Type)
     /\ (lastPut.i + 1) * TypeSize(field.Type) <= Len(lastPut.before)) =>
        /\ ~lastPut.panic
        /\ (/\ lastGet # NoCall
            /\ lastGet.order = lastPut.order
            /\ Representable(field.Type, lastPut.val)) =>
               ~lastGet.panic /\ lastGet.val = lastPut.val


(***************************************************************************)
(* Fix.  An operator that can panic returns [panic, ...] with what the     *)
(* call left behind: Fix changes the tree in place, so a Fix that panics   *)
(* leaves the fields it had reached changed.                               *)
(***************************************************************************)
\* sort.Slice by tag: for a slice of fewer than 12 elements the library sorts
\* by insertion, moving an element down only past elements with a greater
\* tag.
RECURSIVE InsertByTag(_, _)
InsertByTag(sorted, f) ==
    IF sorted = <<>> \/ ~(f.Tag < sorted[Len(sorted)].Tag) THEN Append(sorted, f)
    ELSE Append(InsertByTag(SubSeq(sorted, 1, Len(sorted) - 1), f), sorted[Len(sorted)])

RECURSIVE SortByTagFrom(_, _, _)
SortByTagFrom(fields, i, sorted) ==
    IF i > Len(fields) THEN sorted
    ELSE SortByTagFrom(fields, i + 1, InsertByTag(sorted, fields[i]))

SortByTag(fields) == SortByTagFrom(fields, 1, <<>>)

IsOffsetTag(specs, tag) == \E j \in 1..Len(specs) : specs[j].OffsetTag = tag

\* The offsets of a SHORT field from the kth on, each stored as a LONG;
\* reading an offset that the data does not hold panics.
RECURSIVE ShortsAsLongs(_, _, _)
ShortsAsLongs(f, order, k) ==
    IF k >= N32(f.Count) THEN Wrote(<<>>)
    ELSE IF Short(f, k, order).panic THEN PutPanic(<<>>)
    ELSE IF ShortsAsLongs(f, order, k + 1).panic THEN PutPanic(<<>>)
    ELSE Wrote(Bytes32(order, U32(Short(f, k, order).val))
               \o ShortsAsLongs(f, order, k + 1).Data)

PromoteShort(f, order) ==
    IF ShortsAsLongs(f, order, 0).panic THEN [panic |-> TRUE, field |-> f]
    ELSE [panic |-> FALSE,
          field |-> [f EXCEPT !.Type = LONG, !.Data = ShortsAsLongs(f, order, 0).Data]]

\* copy(newData, data) into n zero bytes.
CopyTo(n, data) == [k \in 1..n |-> IF k <= Len(data) THEN data[k] ELSE 0]

\* A Fix that appends a NUL to every ASCII field, terminated or not.
TerminateASCIIAlways(f) ==
    IF f.Count = Zero32 \/ N32(f.Count) - 1 >= Len(f.Data) THEN [panic |-> TRUE, field |-> f]
    ELSE [panic |-> FALSE,
          field |-> [f EXCEPT !.Count = Add32(f.Count, U32(1)),
                              !.Data = CopyTo(N32(f.Count) + 1, f.Data)]]

\* The index Count-1 is computed in 32 bits: for a count of 0 it is 2^32-1.
TerminateASCII(f) ==
    IF f.Count = Zero32 \/ N32(f.Count) - 1 >= Len(f.Data) THEN [panic |-> TRUE, field |-> f]
    ELSE IF At(f.Data, N32(f.Count) - 1) # 0
    THEN [panic |-> FALSE,
          field |-> [f EXCEPT !.Count = Add32(f.Count, U32(1)),
                              !.Data = CopyTo(N32(f.Count) + 1, f.Data)]]
    ELSE [panic |-> FALSE, field |-> f]

FixField(f, order, specs) ==
    IF f.Type = SHORT /\ IsOffsetTag(specs, f.Tag) THEN PromoteShort(f, order)
    ELSE IF f.Type = ASCII THEN TerminateASCII(f)
    ELSE [panic |-> FALSE, field |-> f]

\* The field loop of IFD_T.Fix from field i on: [panic, fields].
RECURSIVE FixFields(_, _, _, _)
FixFieldsNext(fields, order, specs, i, r) ==
    IF r.panic THEN [panic |-> TRUE, fields |-> fields]
    ELSE FixFields([fields EXCEPT ![i] = r.field], order, specs, i + 1)

FixFields(fields, order, specs, i) ==
    IF i > Len(fields) THEN [panic |-> FALSE, fields |-> fields]
    ELSE FixFieldsNext(fields, order, specs, i, FixField(fields[i], order, specs))

IFDFix(node, specs) == FixFields(SortByTag(node.Fields), node.Order, specs, 1)

\* IFDNode.Fix: [panic, node].
RECURSIVE NodeFix(_)
RECURSIVE FixSubIFDs(_, _)
FixSubIFDsNext(node, i, r) ==
    IF r.panic THEN [panic |-> TRUE, node |-> [node EXCEPT !.SubIFDs[i].Node = r.node]]
    ELSE FixSubIFDs([node EXCEPT !.SubIFDs[i].Node = r.node], i + 1)

FixNext(node, r) == [panic |-> r.panic, node |-> [node EXCEPT !.Next = <<r.node>>]]

FixSubIFDs(node, i) ==
    IF i > Len(node.SubIFDs)
    THEN IF node.Next = <<>> THEN [panic |-> FALSE, node |-> node]
         ELSE FixNext(node, NodeFix(node.Next[1]))
    ELSE FixSubIFDsNext(node, i, NodeFix(node.SubIFDs[i].Node))

NodeFixFields(node, r) ==
    IF r.panic THEN [panic |-> TRUE, node |-> [node EXCEPT !.Fields = r.fields]]
    ELSE FixSubIFDs([node EXCEPT !.Fields = r.fields], 1)

NodeFix(node) ==
    NodeFixFields(node, IFDFix(node, IF node.Space = TIFFSpace THEN TIFFImageData ELSE <<>>))

(***************************************************************************)
(* Editing a tree in place.  The trees are built from fields as GetIFD     *)
(* returns them: the data of a field holds Count values of its type.       *)
(***************************************************************************)
MaxFields == 3

MaxEdits == 2

EditPool(o) ==
    <<Fld(StripOffsets, SHORT, 2, ShortData(o, <<8, 300>>)),
      Fld(StripByteCounts, SHORT, 2, ShortData(o, <<3, 2>>)),
      Fld(Make, ASCII, 2, <<97, 98>>),
      Fld(Make, ASCII, 3, <<97, 98, 0>>),
      Fld(Model, ASCII, 0, <<>>),
      CompressionField(o, 1),
      Fld(JPEGQTables, SHORT, 1, ShortData(o, <<515>>)),
      Fld(TileOffsets, LONG, 1, LongData(o, <<70000>>))>>

FieldLists(o) ==
    UNION {{[k \in 1..n |-> EditPool(o)[ix[k]]] : ix \in [1..n -> 1..Len(EditPool(o))]}
           : n \in 0..MaxFields}

\* An Exif IFD and a next IFD under a root: the offsets of the Exif IFD are
\* not those of TIFFImageData.
Nested(o, fields) ==
    TIFFNode(o, TIFFSpace, <<Fld(ExifIFD, LONG, 1, Zeros(4))>> \o fields, <<>>,
             <<Sub(ExifIFD, TIFFNode(o, ExifSpace, fields, <<>>, <<>>, <<>>))>>,
             <<TIFFNode(o, TIFFSpace, fields, <<>>, <<>>, <<>>)>>)

\* An IFD with no fields, and one with one field or none.
Empty(o) == TIFFNode(o, TIFFSpace, <<>>, <<>>, <<>>, <<>>)

Nodes(o) == {Empty(o), Leaf(o, 1)}

\* The tree of TestEmpty: every IFD is empty or refers to empty IFDs only;
\* the second field stands for an inline sub-IFD of NodeSize bytes.
TestEmptyTree(o, last) ==
    TIFFNode(o, TIFFSpace, <<>>, <<>>, <<>>,
             <<TIFFNode(o, TIFFSpace,
                        <<Fld(888, IFD, 2, <<48, 48, 48, 48, 48, 48, 48, 48>>),
                          Fld(999, UNDEFINED, NodeSize(last), <<48, 48, 48, 48>>)>>,
                        <<>>,
                        <<Sub(888, Empty(o)), Sub(888, Empty(o)), Sub(999, last)>>,
                        <<>>)>>)

WithNext(node, next) == [node EXCEPT !.Next = <<next>>]

\* Chains of IFDs, and IFDs with two sub-IFDs and a next IFD, each with one
\* field or none.
SparseTrees(o) ==
    {WithNext(a, WithNext(b, c)) : a \in Nodes(o), b \in Nodes(o), c \in Nodes(o)}
    \cup {TIFFNode(o, TIFFSpace, own \o <<Fld(SubIFDs, LONG, 2, Zeros(8))>>, <<>>,
                   <<Sub(SubIFDs, a), Sub(SubIFDs, b)>>, <<c>>)
          : own \in {<<>>, <<CompressionField(o, 2)>>},
            a \in Nodes(o) \cup {WithNext(Empty(o), Leaf(o, 3))},
            b \in Nodes(o), c \in Nodes(o)}
    \cup {TestEmptyTree(o, last) : last \in Nodes(o)}

EditTrees(o) ==
    {TIFFNode(o, TIFFSpace, fields, <<>>, <<>>, <<>>) : fields \in FieldLists(o)}
    \cup {Nested(o, fields) : fields \in {fl \in FieldLists(o) : Len(fl) = 2}}
    \cup SparseTrees(o)

EditInit ==
    /\ \E o \in Orders : tree \in EditTrees(o)
    /\ wres = NoCall
    /\ edits = <<>>
    /\ pbuf = <<>>
    /\ pc = "built"
    /\ ctx = NoContext
    /\ outer = <<>>
    /\ stack = <<>>
    /\ call = NoCall
    /\ hist = NoHistory
    /\ pres = NoCall
    /\ HeaderIdle
    /\ DataIdle

\* root.Fix(); a caller that recovers from a panic keeps the tree as the call
\* left it.
FixAct ==
    /\ tree # <<>>
    /\ Len(edits) < MaxEdits
    /\ tree' = NodeFix(tree).node
    /\ edits' = Append(edits, [op |-> "Fix", before |-> tree, panic |-> NodeFix(tree).panic])
    /\ UNCHANGED <<wres, parseVars, hdrVars, dataVars>>

(***************************************************************************)
(* DeleteEmptyIFDs, as the tests and the repacking driver use it: the tree *)
(* without the nodes that have no fields.  The result is a sequence of no  *)
(* node (nil) or one node, as Next is.                                     *)
(***************************************************************************)
RemoveAt(q, i) == SubSeq(q, 1, i - 1) \o SubSeq(q, i + 1, Len(q))

\* A pruning that counts down every introducing field, also one whose count
\* is the size of an inline sub-IFD.
DropSubIFDCountOnly(fields, tag) ==
    IF FindFields([Fields |-> fields], <<tag>>) = <<>> THEN fields
    ELSE LET i == FindFields([Fields |-> fields], <<tag>>)[1]
             f == fields[i]
         IN  IF f.Count = U32(1) THEN RemoveAt(fields, i)
             ELSE [fields EXCEPT ![i] = [f EXCEPT !.Count = U32(N32(f.Count) - 1)]]

\* The fields once a sub-IFD that the field with the given tag introduced is
\* removed: the count of the field goes down by one and the field goes when
\* the count reaches zero; a field of a single-byte type stands for one
\* inline sub-IFD, its count is the size of that sub-IFD, and it goes with it.
DropSubIFD(fields, tag) ==
    IF FindFields([Fields |-> fields], <<tag>>) = <<>> THEN fields
    ELSE LET i == FindFields([Fields |-> fields], <<tag>>)[1]
             f == fields[i]
         IN  IF TypeSize(f.Type) = 1 \/ f.Count = U32(1) THEN RemoveAt(fields, i)
             ELSE [fields EXCEPT ![i] =
                      [f EXCEPT !.Count = U32(N32(f.Count) - 1),
                                !.Data = SubSeq(f.Data, 1,
                                                TypeSize(f.Type) * (N32(f.Count) - 1))]]

RECURSIVE DeleteEmptyIFDs(_)
RECURSIVE DeleteEmptySubIFDs(_, _)

\* The ith sub-IFD once its own tree is pruned to r.
DeleteEmptySubIFDsNext(node, i, r) ==
    IF r = <<>>
    THEN DeleteEmptySubIFDs([node EXCEPT !.SubIFDs = RemoveAt(node.SubIFDs, i),
                                         !.Fields = DropSubIFD(node.Fields,
                                                               node.SubIFDs[i].Tag)], i)
    ELSE DeleteEmptySubIFDs([node EXCEPT !.SubIFDs[i].Node = r[1]], i + 1)

DeleteEmptySubIFDs(node, i) ==
    IF i > Len(node.SubIFDs) THEN node
    ELSE DeleteEmptySubIFDsNext(node, i, DeleteEmptyIFDs(node.SubIFDs[i].Node))

\* The node once its sub-IFDs are pruned and its next tree is pruned to next.
DeleteEmptyNode(node, next) ==
    IF node.Fields = <<>> THEN next ELSE <<[node EXCEPT !.Next = next]>>

DeleteEmptyIFDs(node) ==
    DeleteEmptyNode(DeleteEmptySubIFDs(node, 1),
                    IF node.Next = <<>> THEN <<>> ELSE DeleteEmptyIFDs(node.Next[1]))

\* A nil *IFDNode is the empty tree.
Pruned(r) == IF r = <<>> THEN <<>> ELSE r[1]

\* root = root.DeleteEmptyIFDs()
DeleteEmptyIFDsAct ==
    /\ tree # <<>>
    /\ Len(edits) < MaxEdits
    /\ tree' = Pruned(DeleteEmptyIFDs(tree))
    /\ edits' = Append(edits, [op |-> "DeleteEmptyIFDs", before |-> tree, panic |-> FALSE])
    /\ UNCHANGED <<wres, parseVars, hdrVars, dataVars>>

EditNext == FixAct \/ DeleteEmptyIFDsAct

SpecEdit == EditInit /\ [][EditNext]_vars

\* The nodes of a tree as paths: 0 steps to Next, i to the ith sub-IFD.
RECURSIVE NodeAt(_, _)
NodeAt(node, path) ==
    IF path = <<>> THEN node
    ELSE IF Head(path) = 0 THEN NodeAt(node.Next[1], Tail(path))
    ELSE NodeAt(node.SubIFDs[Head(path)].Node, Tail(path))

RECURSIVE HasPath(_, _)
HasPath(node, path) ==
    IF path = <<>> THEN TRUE
    ELSE IF Head(path) = 0 THEN node.Next # <<>> /\ HasPath(node.Next[1], Tail(path))
    ELSE Head(path) <= Len(node.SubIFDs)
         /\ HasPath(node.SubIFDs[Head(path)].Node, Tail(path))

MaxDepth == 2

Paths == UNION {[1..n -> 0..3] : n \in 0..MaxDepth}

PathsOf(node) == {p \in Paths : HasPath(node, p)}

LastEdit == edits[Len(edits)]

FieldsOf(node) == {node.Fields[i] : i \in 1..Len(node.Fields)}

WasShortOffset(node, f) ==
    node.Space = TIFFSpace /\ f.Type = SHORT /\ IsOffsetTag(TIFFImageData, f.Tag)

Promoted(f, g, order) ==
    /\ g.Tag = f.Tag
    /\ g.Type = LONG
    /\ g.Count = f.Count
    /\ Len(g.Data) = 4 * N32(f.Count)
    /\ \A k \in 0..(N32(f.Count) - 1) :
          /\ ~Long(g, k, order).panic
          /\ Long(g, k, order).val = U32(Short(f, k, order).val)

\* C15: after Fix, every field that was a SHORT offset field of
\* TIFFImageData in a TIFF-space IFD has type LONG, the same count, 4 x count
\* data bytes, and its kth LONG value is its original kth SHORT value.
FixPromotesOffsets ==
    (edits # <<>> /\ LastEdit.op = "Fix") =>
        \A p \in PathsOf(LastEdit.before) :
            \A f \in FieldsOf(NodeAt(LastEdit.before, p)) :
                WasShortOffset(NodeAt(LastEdit.before, p), f) =>
                    \E g \in FieldsOf(NodeAt(tree, p)) :
                        Promoted(f, g, NodeAt(tree, p).Order)

EndsInNUL(f) == f.Data # <<>> /\ f.Data[Len(f.Data)] = 0

\* C16: Fix does not fail, and after it every ASCII field that did not end
\* in a NUL, one of count zero included, has one NUL more and a count one
\* higher, and every ASCII field that ended in a NUL is as it was.
FixTerminatesASCII ==
    (edits # <<>> /\ LastEdit.op = "Fix") =>
        /\ ~LastEdit.panic
        /\ \A p \in PathsOf(LastEdit.before) :
              \A f \in FieldsOf(NodeAt(LastEdit.before, p)) :
                  f.Type = ASCII =>
                      \E g \in FieldsOf(NodeAt(tree, p)) :
                          IF EndsInNUL(f) THEN g = f
                          ELSE g = [f EXCEPT !.Count = Add32(f.Count, U32(1)),
                                             !.Data = Append(f.Data, 0)]

(***************************************************************************)
(* Writing image data high in a buffer: PutIFDTree at a position the       *)
(* caller chooses, in a buffer that ends where the tree ends.              *)
(***************************************************************************)
SegmentLists == {<<<<1>>>>, <<<<1, 2>>>>, <<<<1>>, <<3>>>>, <<<<1, 2>>, <<3>>>>,
                 <<<<1>>, <<3, 4>>>>, <<<<1, 2>>, <<3, 4>>>>}

Lens(segs) == [k \in 1..Len(segs) |-> Len(segs[k])]

\* An IFD of strips whose offsets have the given type.
Strips(o, type, segs) ==
    TIFFNode(o, TIFFSpace,
             <<Fld(StripOffsets, type, Len(segs), Zeros(TypeSize(type) * Len(segs))),
               Fld(StripByteCounts, SHORT, Len(segs), ShortData(o, Lens(segs)))>>,
             <<Image(StripOffsets, StripByteCounts, segs)>>, <<>>, <<>>)

PutPositions == {8, 32738, 65500, 65502, 65504, 65506, 65508, 70000}

HighInit ==
    /\ \E o \in Orders, type \in {SHORT, LONG}, segs \in SegmentLists :
          tree = Strips(o, type, segs)
    /\ wres = NoCall
    /\ edits = <<>>
    /\ pbuf = <<>>
    /\ pc = "built"
    /\ ctx = NoContext
    /\ outer = <<>>
    /\ stack = <<>>
    /\ call = NoCall
    /\ hist = NoHistory
    /\ pres = NoCall
    /\ HeaderIdle
    /\ DataIdle

\* A buffer of pos + n zero bytes of which the last n are kept: the tree is
\* written from pos on.
WriterFrom(pos, n) == [NewWriter(n) EXCEPT !.base = -pos]

PutAt(t, pos) ==
    [at |-> pos] @@ SerializedAs(pos + TreeSize(t),
                                 PutIFDTree(WriterFrom(pos, TreeSize(t)), t, pos))

\* node.PutIFDTree(buf, pos) with len(buf) = pos + node.TreeSize().
PutAtAct ==
    /\ pc = "built"
    /\ \E pos \in PutPositions : wres' = PutAt(tree, pos)
    /\ pc' = "written"
    /\ UNCHANGED <<tree, edits, pbuf, ctx, outer, stack, call, hist, pres, hdrVars,
                   dataVars>>

HighNext == PutAtAct

SpecHigh == HighInit /\ [][HighNext]_vars

\* Where the kth segment of the strips goes: after the table, behind the
\* segments before it.
SegmentPos(k) ==
    wres.at + IFDSize(tree) + SumSeq(SubSeq(Lens(tree.ImageData[1].Segments), 1, k - 1))

NumSegments == Len(tree.ImageData[1].Segments)

\* buf[p:p+n] of the buffer written.
BufferAt(p, n) ==
    [k \in 1..n |-> IF p + k - 1 < wres.at THEN 0 ELSE wres.w.buf[p + k - wres.at]]

\* What the table holds as the kth value of the first field, StripOffsets.
StoredShort(k) == Uint16(tree.Order, BufferAt(wres.at + 2 + 8 + 2 * (k - 1), 2), 0)

\* C17: writing strips whose offset field is a SHORT returns the error
\* "position is too large for SHORT field" exactly when a segment is placed
\* at 65536 or higher; otherwise each stored offset is the position of its
\* segment, where the buffer holds the segment.
ShortOffsetOverflow ==
    (wres # NoCall /\ tree.Fields[1].Type = SHORT) =>
        /\ wres.st # "panic"
        /\ (wres.st = "err") <=> (\E k \in 1..NumSegments : SegmentPos(k) >= 65536)
        /\ wres.st = "err" => wres.err = ErrShortPos
        /\ wres.st = "ok" =>
              \A k \in 1..NumSegments :
                  /\ StoredShort(k) = SegmentPos(k)
                  /\ BufferAt(StoredShort(k), Len(tree.ImageData[1].Segments[k]))
                       = tree.ImageData[1].Segments[k]

\* The highest position a SHORT holds was stored, 65535, for a second segment.
ShortOffsetOverflowWitness ==
    /\ wres # NoCall
    /\ tree.Fields[1].Type = SHORT
    /\ wres.st = "ok"
    /\ NumSegments = 2
    /\ SegmentPos(2) = 65535
    /\ StoredShort(2) = 65535

LinkTags(node) == {node.SubIFDs[i].Tag : i \in 1..Len(node.SubIFDs)}

\* The fields of a node that do not introduce a sub-IFD.
DataFields(node) == SelectSeq(node.Fields, LAMBDA f : f.Tag \notin LinkTags(node))

HasData(t) == \E p \in PathsOf(t) : DataFields(NodeAt(t, p)) # <<>>

AllLinkTags(t) == UNION {LinkTags(NodeAt(t, p)) : p \in PathsOf(t)}

\* C18: DeleteEmptyIFDs returns nil exactly when no IFD of the tree has a
\* field other than those that introduce sub-IFDs; otherwise it returns a
\* tree in which no IFD has an empty field list, every field that introduced
\* sub-IFDs still refers to one, and in place of a root without fields there
\* is its next IFD.
DeleteEmptyIFDsPrunes ==
    (edits # <<>> /\ LastEdit.op = "DeleteEmptyIFDs") =>
        /\ tree = <<>> <=> ~HasData(LastEdit.before)
        /\ tree # <<>> =>
              /\ \A p \in PathsOf(tree) :
                    /\ NodeAt(tree, p).Fields # <<>>
                    /\ \A f \in FieldsOf(NodeAt(tree, p)) :
                          f.Tag \in AllLinkTags(LastEdit.before)
                              => f.Tag \in LinkTags(NodeAt(tree, p))
              /\ (LastEdit.before.Fields = <<>> /\ LastEdit.before.Next # <<>>
                    /\ DataFields(LastEdit.before.Next[1]) # <<>>)
                     => DataFields(tree) = DataFields(LastEdit.before.Next[1])

\* The tree of TestEmpty was pruned to nil.
DeleteEmptyIFDsPrunesWitness ==
    /\ Len(edits) = 1
    /\ edits[1].op = "DeleteEmptyIFDs"
    /\ edits[1].before = TestEmptyTree(edits[1].before.Order, Empty(edits[1].before.Order))
    /\ tree = <<>>

(***************************************************************************)
(* Properties of reading IFDs without entries and IFDs cut short.          *)
(***************************************************************************)
\* The root IFD of the buffer: its position, its entry count and what
\* follows an IFD of no entries, the next pointer.
RootPos == N32(GetHeader(pbuf).ifdPos)

RootEntries == Uint16(tree.Order, pbuf, RootPos)

\* C19: when the root IFD of the buffer has an entry count of zero and a
\* next pointer that is not zero, GetIFDTree returns a node without fields
\* whose Next is the IFD at that pointer, together with an error that
\* reports the empty IFD.
EmptyIFDWithNext ==
    (Returned /\ Unpatched /\ tree.Fields = <<>> /\ tree.Next # <<>>
       /\ RootEntries = 0 /\ Uint32(tree.Order, pbuf, RootPos + 2) # Zero32) =>
        /\ pres.tree # <<>>
        /\ pres.tree[1].Fields = <<>>
        /\ pres.tree[1].Next # <<>>
        /\ pres.err # <<>>

\* The root IFD's table, with its next pointer, ends past the end of the
\* buffer.
RootTruncated ==
    /\ RootPos + 2 <= Len(pbuf)
    /\ RootEntries > 0
    /\ RootPos + 2 + 12 * RootEntries + 4 > Len(pbuf)

\* The entries of the root IFD that lie in the buffer, and the tag of the kth.
RootFit ==
    IF 12 * RootEntries <= Len(pbuf) - RootPos - 2 THEN RootEntries
    ELSE (Len(pbuf) - RootPos - 2) \div 12

RootTag(k) == Uint16(tree.Order, pbuf, RootPos + 2 + 12 * (k - 1))

\* The entries before the first whose tag is lower than the tag before it.
RootSalvage ==
    CHOOSE m \in 0..RootFit :
        /\ \A k \in 2..m : RootTag(k - 1) <= RootTag(k)
        /\ m < RootFit => m > 0 /\ RootTag(m + 1) < RootTag(m)

IsTruncationError(err) ==
    err # <<>> /\ "ErrType" \in DOMAIN err[1] /\ err[1].ErrType = ErrIFDTruncated

\* C20: when the table of the root IFD with its next pointer ends past the
\* end of the buffer, GetIFDTree returns the truncation error together with
\* a node whose fields are the entries that lie in the buffer, up to the
\* first entry whose tag is lower than the tag before it.
TruncatedTableSalvage ==
    (Returned /\ RootTruncated) =>
        /\ IsTruncationError(pres.err)
        /\ pres.tree # <<>>
        /\ Len(pres.tree[1].Fields) = RootSalvage
        /\ \A k \in 1..RootSalvage : pres.tree[1].Fields[k].Tag = RootTag(k)

(***************************************************************************)
(* AddFields and DeleteFields on a node that was created without fields.   *)
(***************************************************************************)
\* AddFields: the fields are appended (in the spare capacity of the slice or
\* in a new array) and the whole list is sorted by tag; nothing is done for
\* an empty list.
AddFields(cur, fields) == IF fields = <<>> THEN cur ELSE SortByTag(cur \o fields)

\* How many tags of the list are the tag.
RECURSIVE Matches(_, _)
Matches(tags, tag) ==
    IF tags = <<>> THEN 0
    ELSE (IF Head(tags) = tag THEN 1 ELSE 0) + Matches(Tail(tags), tag)

\* A DeleteFields that counts a field once however many tags name it.
RECURSIVE DeleteFieldsOnce(_, _, _, _)
DeleteFieldsOnce(fields, tags, i, shift) ==
    IF i > Len(fields) THEN [panic |-> FALSE, fields |-> SubSeq(fields, 1, Len(fields) - shift)]
    ELSE DeleteFieldsOnce(IF shift > 0 THEN [fields EXCEPT ![i - shift] = fields[i]] ELSE fields,
                          tags, i + 1,
                          shift + (IF Matches(tags, fields[i].Tag) > 0 THEN 1 ELSE 0))

\* The loop of DeleteFields from the ith field on (i counts from 1), shift
\* fields counted as deleted so far: [panic, fields].  The index i-shift and
\* the final length numFields-shift are out of range when they are negative.
RECURSIVE DeleteFields(_, _, _, _)
DeleteFields(fields, tags, i, shift) ==
    IF i > Len(fields)
    THEN IF Len(fields) - shift < 0 THEN [panic |-> TRUE, fields |-> fields]
         ELSE [panic |-> FALSE, fields |-> SubSeq(fields, 1, Len(fields) - shift)]
    ELSE IF shift > 0 /\ i - shift < 1 THEN [panic |-> TRUE, fields |-> fields]
    ELSE DeleteFields(IF shift > 0 THEN [fields EXCEPT ![i - shift] = fields[i]] ELSE fields,
                      tags, i + 1, shift + Matches(tags, fields[i].Tag))

MaxCalls == 3

MaxArgs == 2

CallFields(o) == <<CompressionField(o, 1), CompressionField(o, 2), Fld(Make, ASCII, 1, <<0>>)>>

CallTags == <<Compression, Make, Model>>

Picks(pool) ==
    UNION {{[k \in 1..n |-> pool[ix[k]]] : ix \in [1..n -> 1..Len(pool)]} : n \in 0..MaxArgs}

FieldsInit ==
    /\ \E o \in Orders : tree = Empty(o)
    /\ wres = NoCall
    /\ edits = <<>>
    /\ pbuf = <<>>
    /\ pc = "built"
    /\ ctx = NoContext
    /\ outer = <<>>
    /\ stack = <<>>
    /\ call = NoCall
    /\ hist = NoHistory
    /\ pres = NoCall
    /\ HeaderIdle
    /\ DataIdle

AddFieldsAct ==
    /\ pc = "built"
    /\ Len(edits) < MaxCalls
    /\ \E fields \in Picks(CallFields(tree.Order)) :
          /\ tree' = [tree EXCEPT !.Fields = AddFields(tree.Fields, fields)]
          /\ edits' = Append(edits, [op |-> "AddFields", arg |-> fields, before |-> tree,
                                     panic |-> FALSE])
    /\ UNCHANGED <<wres, parseVars, hdrVars, dataVars>>

DeletedFields(t, tags, r) ==
    /\ tree' = [t EXCEPT !.Fields = r.fields]
    /\ edits' = Append(edits, [op |-> "DeleteFields", arg |-> tags, before |-> t,
                               panic |-> r.panic])

\* A caller that recovers from a panic keeps the node as the call left it.
DeleteFieldsAct ==
    /\ pc = "built"
    /\ Len(edits) < MaxCalls
    /\ \E tags \in Picks(CallTags) :
          DeletedFields(tree, tags, DeleteFields(tree.Fields, tags, 1, 0))
    /\ UNCHANGED <<wres, parseVars, hdrVars, dataVars>>

\* The node is written as the tests write a tree.
PutFieldsAct ==
    /\ pc = "built"
    /\ wres' = Serialized(tree)
    /\ pc' = "written"
    /\ UNCHANGED <<tree, edits, pbuf, ctx, outer, stack, call, hist, pres, hdrVars,
                   dataVars>>

FieldsNext == AddFieldsAct \/ DeleteFieldsAct \/ PutFieldsAct

SpecFields == FieldsInit /\ [][FieldsNext]_vars

Named(tags, tag) == \E k \in 1..Len(tags) : tags[k] = tag

\* C29: DeleteFields(tags) does not fail and leaves exactly the fields whose
\* tag is not in tags, in their order, whatever the field list (duplicate
\* tags included) and the tags list (a tag named twice included).
DeleteFieldsExact ==
    (edits # <<>> /\ LastEdit.op = "DeleteFields") =>
        /\ ~LastEdit.panic
        /\ tree.Fields = SelectSeq(LastEdit.before.Fields,
                                   LAMBDA f : ~Named(LastEdit.arg, f.Tag))

\* How often a field is in a list, and how often it is to be in the list
\* after the first n calls: added, and not deleted by a later call.
Occurs(fields, f) == Cardinality({k \in 1..Len(fields) : fields[k] = f})

RECURSIVE Remaining(_, _)
Remaining(n, f) ==
    IF n = 0 THEN 0
    ELSE IF edits[n].op = "AddFields" THEN Remaining(n - 1, f) + Occurs(edits[n].arg, f)
    ELSE IF Named(edits[n].arg, f.Tag) THEN 0
    ELSE Remaining(n - 1, f)

\* C30: after any sequence of AddFields and DeleteFields on a node created
\* without fields, the fields are in non-decreasing tag order and are exactly
\* the fields added and not deleted afterwards, and Put does not fail with
\* the tags-out-of-order error.
SortedFields ==
    /\ \A k \in 1..(Len(tree.Fields) - 1) : tree.Fields[k].Tag <= tree.Fields[k + 1].Tag
    /\ \A k \in 1..Len(tree.Fields) : Remaining(Len(edits), tree.Fields[k]) > 0
    /\ \A k \in 1..Len(CallFields(tree.Order)) :
          Occurs(tree.Fields, CallFields(tree.Order)[k])
            = Remaining(Len(edits), CallFields(tree.Order)[k])
    /\ wres # NoCall => wres.err # ErrTagOrder

(***************************************************************************)
(* Identifying a maker note by its label or by the camera make.            *)
(***************************************************************************)
\* Namespaces of maker notes; the one of no maker note is TagSpace(0).
Fujifilm1Space == 12

Canon1Space == 13

Olympus1Space == 14

Sony1Space == 15

fujifilm1Label == <<70, 85, 74, 73, 70, 73, 76, 77>>

generaleLabel == <<71, 69, 78, 69, 82, 65, 76, 69>>

panasonic1Label == panasonicLabel

\* The prefixes of olympus1Labels: "OLYMP\0", "OLYMPUS\0II", "SONY PI\0",
\* "PREMI\0", "CAMER\0", "MINOL\0".
olympus1Labels ==
    <<<<79, 76, 89, 77, 80, 0>>, <<79, 76, 89, 77, 80, 85, 83, 0, 73, 73>>,
      <<83, 79, 78, 89, 32, 80, 73, 0>>, <<80, 82, 69, 77, 73, 0>>,
      <<67, 65, 77, 69, 82, 0>>, <<77, 73, 78, 79, 76, 0>>>>

\* "SONY CAM \0\0\0", "SONY DSC \0\0\0", "\0\0SONY PIC\0\0", "SONY MOBILE\0",
\* "VHAB     \0\0\0".
sony1Labels ==
    <<<<83, 79, 78, 89, 32, 67, 65, 77, 32, 0, 0, 0>>,
      <<83, 79, 78, 89, 32, 68, 83, 67, 32, 0, 0, 0>>,
      <<0, 0, 83, 79, 78, 89, 32, 80, 73, 67, 0, 0>>,
      <<83, 79, 78, 89, 32, 77, 79, 66, 73, 76, 69, 0>>,
      <<86, 72, 65, 66, 32, 32, 32, 32, 32, 0, 0, 0>>>>

AnyPrefix(b, labels) == \E k \in 1..Len(labels) : HasPrefix(b, labels[k])

\* The default case of identifyMakerNote on buf[pos:]: the Olympus and Sony
\* labels, then the make in lower case.
IdentifyByMake(b, lcMake) ==
    IF AnyPrefix(b, olympus1Labels) THEN Olympus1Space
    ELSE IF AnyPrefix(b, sony1Labels) THEN Sony1Space
    ELSE IF HasPrefix(lcMake, <<110, 105, 107, 111, 110>>) THEN Nikon2Space
    ELSE IF HasPrefix(lcMake, <<99, 97, 110, 111, 110>>) THEN Canon1Space
    ELSE 0

\* An identification that tests the Nikon 2 prefix before the Nikon 1 label.
IdentifyNikon2First(b, make) ==
    IF HasPrefix(b, fujifilm1Label) THEN Fujifilm1Space
    ELSE IF HasPrefix(b, generaleLabel) THEN Fujifilm1Space
    ELSE IF HasPrefix(b, nikon2LabelPrefix) THEN Nikon2Space
    ELSE IF HasPrefix(b, nikon1Label) THEN Nikon1Space
    ELSE IF HasPrefix(b, panasonic1Label) THEN Panasonic1Space
    ELSE IdentifyByMake(b, ToLower(make))

\* The switch of identifyMakerNote on b = buf[pos:].
IdentifyLabel(b, make) ==
    IF HasPrefix(b, fujifilm1Label) THEN Fujifilm1Space
    ELSE IF HasPrefix(b, generaleLabel) THEN Fujifilm1Space
    ELSE IF HasPrefix(b, nikon1Label) THEN Nikon1Space
    ELSE IF HasPrefix(b, nikon2LabelPrefix) THEN Nikon2Space
    ELSE IF HasPrefix(b, panasonic1Label) THEN Panasonic1Space
    ELSE IdentifyByMake(b, ToLower(make))

\* identifyMakerNote(buf, pos, make, model): buf[pos:] panics when pos is
\* past the end of buf.
identifyMakerNote(buf, pos, make) ==
    IF pos > Len(buf) THEN [panic |-> TRUE, space |-> 0]
    ELSE [panic |-> FALSE, space |-> IdentifyLabel(SubSeq(buf, pos + 1, Len(buf)), make)]

AllLabels ==
    <<fujifilm1Label, generaleLabel, nikon1Label, nikon2LabelPrefix, panasonic1Label>>
    \o olympus1Labels \o sony1Labels

\* Payloads: every label, alone, followed by other bytes and without its last
\* byte, and payloads that are no label.
Payloads ==
    UNION {{AllLabels[k], AllLabels[k] \o <<2, 0>>,
            SubSeq(AllLabels[k], 1, Len(AllLabels[k]) - 1)} : k \in 1..Len(AllLabels)}
    \cup {<<>>, <<1, 0, 3>>}

\* "NIKON", "Nikon CORP", "Canon", "canon", "Nik", "xnikon", "SONY", "".
Makes ==
    {<<78, 73, 75, 79, 78>>, <<78, 105, 107, 111, 110, 32, 67, 79, 82, 80>>,
     <<67, 97, 110, 111, 110>>, <<99, 97, 110, 111, 110>>, <<78, 105, 107>>,
     <<120, 110, 105, 107, 111, 110>>, <<83, 79, 78, 89>>, <<>>}

MaxLead == 2

IdentInit ==
    /\ \E payload \in Payloads, lead \in 0..MaxLead, make \in Makes, at \in {0, 1} :
          /\ pbuf = [k \in 1..lead |-> 9] \o payload
          /\ call = [kind |-> "identifyMakerNote", pos |-> lead + at * (Len(payload) + 1),
                     make |-> make]
    /\ tree = <<>>
    /\ wres = NoCall
    /\ edits = <<>>
    /\ pc = "idle"
    /\ ctx = NoContext
    /\ outer = <<>>
    /\ stack = <<>>
    /\ hist = NoHistory
    /\ pres = NoCall
    /\ HeaderIdle
    /\ DataIdle

Identified(r) ==
    pres' = [kind |-> "identifyMakerNote", panic |-> r.panic, space |-> r.space]

IdentifyAct ==
    /\ pc = "idle"
    /\ call.kind = "identifyMakerNote"
    /\ Identified(identifyMakerNote(pbuf, call.pos, call.make))
    /\ pc' = "done"
    /\ UNCHANGED <<tree, wres, edits, pbuf, ctx, outer, stack, call, hist, hdrVars, dataVars>>

IdentNext == IdentifyAct

SpecIdent == IdentInit /\ [][IdentNext]_vars

\* The labels in their order of priority, each group with its namespace.
LabelGroups ==
    <<[labels |-> <<fujifilm1Label, generaleLabel>>, space |-> Fujifilm1Space],
      [labels |-> <<nikon1Label>>, space |-> Nikon1Space],
      [labels |-> <<nikon2LabelPrefix>>, space |-> Nikon2Space],
      [labels |-> <<panasonic1Label>>, space |-> Panasonic1Space],
      [labels |-> olympus1Labels, space |-> Olympus1Space],
      [labels |-> sony1Labels, space |-> Sony1Space]>>

Payload == SubSeq(pbuf, call.pos + 1, Len(pbuf))

GroupMatches(k) == AnyPrefix(Payload, LabelGroups[k].labels)

\* C28: the maker note gets the namespace of the first group of labels, in
\* the order Fujifilm, Nikon 1, Nikon 2 prefix, Panasonic, Olympus, Sony, of
\* which a label is a prefix of the payload, whatever the make; when no label
\* is, a make that begins with "nikon" in lower case gives Nikon 2, one that
\* begins with "canon" gives Canon 1, and any other make gives no namespace.
MakerNoteIdentification ==
    (pc = "done" /\ pres.kind = "identifyMakerNote" /\ ~pres.panic) =>
        /\ \A k \in 1..Len(LabelGroups) :
              (GroupMatches(k) /\ \A j \in 1..(k - 1) : ~GroupMatches(j))
                  => pres.space = LabelGroups[k].space
        /\ (\A k \in 1..Len(LabelGroups) : ~GroupMatches(k)) =>
              pres.space = IF HasPrefix(ToLower(call.make), <<110, 105, 107, 111, 110>>)
                           THEN Nikon2Space
                           ELSE IF HasPrefix(ToLower(call.make), <<99, 97, 110, 111, 110>>)
                           THEN Canon1Space
                           ELSE 0

\* A payload that begins with the whole Nikon 1 label, after other bytes of
\* the buffer and under a Canon make, was identified as Nikon 1.
MakerNoteIdentificationWitness ==
    /\ pc = "done"
    /\ pres.kind = "identifyMakerNote"
    /\ call.pos = 2
    /\ Payload = nikon1Label \o <<2, 0>>
    /\ call.make = <<67, 97, 110, 111, 110>>
    /\ pres.space = Nikon1Space


(***************************************************************************)
(* The 4-byte tail of a table.  A node's SpaceRec decides what becomes of  *)
(* it: getFooter of Panasonic1SpaceRec and Sony1SpaceRec returns nil at    *)
(* once, getFooter of the Canon1, Fujifilm1, Nikon1, Nikon2, Nikon2Preview *)
(* and Olympus1 records hands it to unexpectedFooter, and every other      *)
(* namespace has the generic tail of getIFDTreeIter, which reads the IFD   *)
(* the pointer names in the namespace of the chain rule.  The tables read  *)
(* here hold no field that is a sub-IFD pointer.                           *)
(***************************************************************************)
ErrUnexpectedFooter == ErrorsNew("unexpected next IFD pointer")

ForbiddenSpaces ==
    {Canon1Space, Fujifilm1Space, Nikon1Space, Nikon2Space, Nikon2PreviewSpace,
     Olympus1Space}

AllSpaces == 0..15

FooterResult(panic, err, next) == [panic |-> panic, err |-> err, next |-> next]

NoFooter == FooterResult(FALSE, <<>>, <<>>)

\* node.unexpectedFooter(buf, pos, ifdPositions): the pointer at pos must be
\* zero.
unexpectedFooter(buf, order, pos) ==
    IF pos + 4 > Len(buf) THEN FooterResult(TRUE, <<>>, <<>>)
    ELSE IF Uint32(order, buf, pos) # Zero32
    THEN FooterResult(FALSE, <<ErrUnexpectedFooter>>, <<>>)
    ELSE NoFooter

\* What getIFDTreeIter returns: nil and the error, or the node.  Pos is the
\* position the node was read at.
TreeRead(panic, err, node) == [panic |-> panic, err |-> err, node |-> node]

RECURSIVE getIFDTreeIterAt(_, _, _, _, _)

\* The tail of getIFDTreeIter: r is what the recursive call returned.
FollowedFooter(r) ==
    IF r.panic \/ r.err # <<>> THEN FooterResult(r.panic, r.err, <<>>)
    ELSE FooterResult(FALSE, <<>>, r.node)

genericGetFooter(buf, order, space, next, seen) ==
    IF next = Zero32 THEN NoFooter
    ELSE FollowedFooter(getIFDTreeIterAt(buf, order, next, NextSpace(space), seen))

\* A getFooter that takes every namespace for a generic one.
getFooterGenericOnly(buf, order, space, pos, next, seen) ==
    genericGetFooter(buf, order, space, next, seen)

\* rec.getFooter(node, buf, pos, ifdPositions) by the namespace of rec; next
\* is the pointer GetIFD read at pos.
getFooter(buf, order, space, pos, next, seen) ==
    IF space \in {Panasonic1Space, Sony1Space} THEN NoFooter
    ELSE IF space \in ForbiddenSpaces THEN unexpectedFooter(buf, order, pos)
    ELSE genericGetFooter(buf, order, space, next, seen)

\* The node once its table r and its tail f are read.
TreeReadEnd(order, pos, space, r, f) ==
    IF f.panic \/ f.err # <<>> THEN TreeRead(f.panic, f.err, <<>>)
    ELSE TreeRead(FALSE, <<>>,
                  <<[Order |-> order, Space |-> space, Pos |-> pos,
                     Fields |-> r.ifd.Fields, Next |-> f.next]>>)

TreeReadFooter(buf, order, pos, space, seen, r) ==
    IF r.panic \/ r.err # <<>> THEN TreeRead(r.panic, r.err, <<>>)
    ELSE TreeReadEnd(order, pos, space, r,
                     getFooter(buf, order, space, pos[2] + 2 + 12 * Len(r.ifd.Fields),
                               r.next, seen \cup {pos}))

getIFDTreeIterAt(buf, order, pos, space, seen) ==
    IF pos \in seen THEN TreeRead(FALSE, <<ErrLoop>>, <<>>)
    ELSE TreeReadFooter(buf, order, pos, space, seen,
                        GetIFD(buf, order, pos,
                               IF space = TIFFSpace THEN TIFFImageData ELSE <<>>, FALSE))

\* The values the tail of the table holds: zero, the other table of the
\* buffer, the table itself and a position past the end of the buffer.
SlotValues == {0, 8, 26, 100}

TablePositions == {8, 26}

\* The tail of the one-field table at pos.
SlotOf(pos) == pos + 2 + 12

FooterInit ==
    /\ \E o \in Orders, space \in AllSpaces, pos \in TablePositions, v \in SlotValues :
          /\ pbuf = PutUint32(o, Serialized(TreeOf("chain", o)).w.buf, SlotOf(pos), U32(v))
          /\ call = [kind |-> "getIFDTree", order |-> o, pos |-> pos, space |-> space]
    /\ tree = <<>>
    /\ wres = NoCall
    /\ edits = <<>>
    /\ pc = "idle"
    /\ ctx = NoContext
    /\ outer = <<>>
    /\ stack = <<>>
    /\ hist = NoHistory
    /\ pres = NoCall
    /\ HeaderIdle
    /\ DataIdle

TreeWasRead(r) ==
    pres' = [kind |-> "getIFDTree", panic |-> r.panic, err |-> r.err, node |-> r.node]

GetIFDTreeAct ==
    /\ pc = "idle"
    /\ call.kind = "getIFDTree"
    /\ TreeWasRead(getIFDTreeIterAt(pbuf, call.order, U32(call.pos), call.space, {}))
    /\ pc' = "done"
    /\ UNCHANGED <<tree, wres, edits, pbuf, ctx, outer, stack, call, hist, hdrVars, dataVars>>

FooterNext == GetIFDTreeAct

SpecFooter == FooterInit /\ [][FooterNext]_vars

\* The pointer the tail of the table read holds.
Slot == Uint32(call.order, pbuf, SlotOf(call.pos))

FooterDone == pc = "done" /\ pres.kind = "getIFDTree"

\* The namespace the chain rule gives after space.
ChainSpace(space) ==
    CASE space = ExifSpace -> TIFFSpace
      [] space = MPFIndexSpace -> MPFAttributeSpace
      [] OTHER -> space

\* The read went to the IFD the pointer names, in the namespace of the chain
\* rule: the node hangs on Next, or the read of that IFD failed.
Followed ==
    \/ /\ ~pres.panic /\ pres.err = <<>>
       /\ Len(pres.node[1].Next) = 1
       /\ pres.node[1].Next[1].Pos = Slot
       /\ pres.node[1].Next[1].Space = ChainSpace(call.space)
    \/ /\ ~pres.panic /\ pres.node = <<>>
       /\ pres.err \in {<<ErrLoop>>, <<GetIFDError(ErrIFDPos, Slot, 0, 0)>>}

SegmentsLen(segs, n) == SumSeq([j \in 1..n |-> Len(segs[j])])

\* The position putImageData writes segment j of ImageData i at, the IFD
\* being put at pos.
SegmentStart(ifd, pos, i, j) ==
    pos + IFDSize(ifd)
    + SumSeq([m \in 1..(i - 1) |->
                 SegmentsLen(ifd.ImageData[m].Segments, Len(ifd.ImageData[m].Segments))])
    + SegmentsLen(ifd.ImageData[i].Segments, j - 1)

\* The index of the field with the tag.
FieldOf(ifd, tag) == CHOOSE k \in 1..Len(ifd.Fields) : ifd.Fields[k].Tag = tag

\* Value j of field k as the output holds it: in the entry's value slot when
\* the field has at most 4 bytes, at the offset stored there otherwise.
StoredValue(buf, ifd, pos, k, j) ==
    LET f == ifd.Fields[k]
        slot == pos + 2 + 12 * (k - 1) + 8
        at == IF N32(FieldSize(f)) <= 4 THEN slot ELSE N32(Uint32(ifd.Order, buf, slot))
    IN  IF f.Type = LONG THEN N32(Uint32(ifd.Order, buf, at + 4 * (j - 1)))
        ELSE Uint16(ifd.Order, buf, at + 2 * (j - 1))

\* Every ImageData has its offset field, a LONG or SHORT field with one value
\* for each segment, and the tags are in order.
ImageDataMatchesFields(ifd) ==
    /\ \A k \in 1..(Len(ifd.Fields) - 1) : ifd.Fields[k].Tag < ifd.Fields[k + 1].Tag
    /\ \A i \in 1..Len(ifd.ImageData) :
          \E k \in 1..Len(ifd.Fields) :
             /\ ifd.Fields[k].Tag = ifd.ImageData[i].OffsetTag
             /\ ifd.Fields[k].Type \in {LONG, SHORT}
             /\ ifd.Fields[k].Count = U32(Len(ifd.ImageData[i].Segments))
             /\ Len(ifd.Fields[k].Data) = N32(FieldSize(ifd.Fields[k]))

Relocated(buf, ifd, pos, i, j) ==
    /\ StoredValue(buf, ifd, pos, FieldOf(ifd, ifd.ImageData[i].OffsetTag), j)
          = SegmentStart(ifd, pos, i, j)
    /\ SubSeq(buf, SegmentStart(ifd, pos, i, j) + 1,
              SegmentStart(ifd, pos, i, j) + Len(ifd.ImageData[i].Segments[j]))
          = ifd.ImageData[i].Segments[j]

\* C24: after Put on a node whose ImageData entries have their offset
\* fields, several pairs together included, value j of each entry's own
\* offset field in the output is the position segment j of that entry was
\* written at, and the bytes there are the segment.
ImageDataRelocation ==
    pc # "built" /\ wres.kind = "PutIFDTree" /\ tree.ImageData # <<>>
       /\ ImageDataMatchesFields(tree) =>
          /\ wres.st = "ok"
          /\ \A i \in 1..Len(tree.ImageData) :
                \A j \in 1..Len(tree.ImageData[i].Segments) :
                   Relocated(wres.w.buf, tree, HeaderSize, i, j)

\* The same for the nodes with a single pair.
SingleImageDataRelocation ==
    Len(tree.ImageData) = 1 => ImageDataRelocation


(***************************************************************************)
(* Nodes with links.  The root has a Compression field, with or without a  *)
(* Make field (external data), strips and a next IFD, and one field that   *)
(* introduces sub-IFDs: an UNDEFINED or BYTE field as the Exif maker note  *)
(* is, or a SubIFDs field of type LONG or IFD.  The sub-IFDs are empty     *)
(* IFDs, leaves, and leaves of odd size.  The caller serializes the tree   *)
(* as above.                                                               *)
(***************************************************************************)
MakeLeaf(o) == TIFFNode(o, TIFFSpace, <<CompressionField(o, 1), MakeAbcd>>, <<>>, <<>>, <<>>)

SubKinds(o) == {Empty(o), Leaf(o, 1), MakeLeaf(o)}

\* The lists of n sub-IFDs with the tag.
SubLists(o, tag, n) ==
    IF n = 1 THEN {<<Sub(tag, a)>> : a \in SubKinds(o)}
    ELSE {<<Sub(tag, a), Sub(tag, b)>> : a \in {Empty(o), MakeLeaf(o)},
                                         b \in {Leaf(o, 2), MakeLeaf(o)}}

\* A link field with its sub-IFDs: [fields, subs].
Linked(f, subs) == [fields |-> <<f>>, subs |-> subs]

LinkChoices(o) ==
    {[fields |-> <<>>, subs |-> <<>>]}
    \cup {Linked(Fld(makerNote, UNDEFINED, c, [k \in 1..c |-> k]), s) :
             c \in {4, 8}, s \in SubLists(o, makerNote, 1) \cup SubLists(o, makerNote, 2)}
    \cup {Linked(Fld(makerNote, BYTE, 4, <<1, 2, 3, 4>>), s) : s \in SubLists(o, makerNote, 1)}
    \cup UNION {{Linked(Fld(SubIFDs, t, n, Zeros(4 * n)), s) :
                    t \in {LONG, IFD}, s \in SubLists(o, SubIFDs, n)} : n \in {1, 2}}

StripFields(o) ==
    <<Fld(StripOffsets, LONG, 2, Zeros(8)),
      Fld(StripByteCounts, LONG, 2, LongData(o, <<3, 2>>))>>

LinkedTrees(o) ==
    {TIFFNode(o, TIFFSpace,
              <<CompressionField(o, 1)>> \o (IF ext THEN <<MakeAbcd>> ELSE <<>>)
                 \o (IF img THEN StripFields(o) ELSE <<>>) \o l.fields,
              IF img THEN <<Image(StripOffsets, StripByteCounts, <<<<1, 2, 3>>, <<4, 5>>>>)>>
              ELSE <<>>,
              l.subs,
              IF nxt THEN <<Leaf(o, 3)>> ELSE <<>>) :
        l \in LinkChoices(o), ext \in BOOLEAN, img \in BOOLEAN, nxt \in BOOLEAN}

PutInit ==
    /\ \E o \in Orders : tree \in LinkedTrees(o)
    /\ wres = NoCall
    /\ edits = <<>>
    /\ pbuf = <<>>
    /\ pc = "built"
    /\ ctx = NoContext
    /\ outer = <<>>
    /\ stack = <<>>
    /\ call = NoCall
    /\ hist = NoHistory
    /\ pres = NoCall
    /\ HeaderIdle
    /\ DataIdle

PutNext == Serialize

SpecPut == PutInit /\ [][PutNext]_vars

PutDone == pc = "written" /\ wres.kind = "PutIFDTree"

\* The sub-IFDs of the node that the field with the tag introduces.
LinksOf(node, tag) == SelectSeq(node.SubIFDs, LAMBDA s : s.Tag = tag)

\* The root has an UNDEFINED field with more than one sub-IFD.
UndefinedWithLinks ==
    \E k \in 1..Len(tree.Fields) :
        tree.Fields[k].Type = UNDEFINED /\ Len(LinksOf(tree, tree.Fields[k].Tag)) > 1

\* C21: no error is swallowed; Put returns an error when an UNDEFINED
\* field has more than one sub-IFD.
NoSwallowedError ==
    PutDone /\ UndefinedWithLinks => wres.st = "err"


\* The count slot and the value slot of entry k of the table at pos.
CountSlot(buf, order, pos, k) == N32(Uint32(order, buf, pos + 2 + 12 * (k - 1) + 4))

ValueSlot(buf, order, pos, k) == N32(Uint32(order, buf, pos + 2 + 12 * (k - 1) + 8))

\* Pointer i of the pointer field k: in the value slot when the field has at
\* most 4 bytes, at the offset stored there otherwise.
StoredPointer(buf, ifd, pos, k, i) ==
    IF N32(FieldSize(ifd.Fields[k])) <= 4 THEN ValueSlot(buf, ifd.Order, pos, k)
    ELSE N32(Uint32(ifd.Order, buf, ValueSlot(buf, ifd.Order, pos, k) + 4 * (i - 1)))

\* The index in node.SubIFDs of link i of the tag.
LinkIndex(node, tag, i) ==
    CHOOSE m \in 1..Len(node.SubIFDs) :
        /\ node.SubIFDs[m].Tag = tag
        /\ Cardinality({n \in 1..m : node.SubIFDs[n].Tag = tag}) = i

\* The sub-IFDs of the root have no links of their own and are written one
\* after the other before anything else: Put call m of the serialization is
\* the Put of sub-IFD m.
SubPos(m) == wres.w.puts[m].pos

\* A single-byte field's entry stands for link i of its sub-IFDs.
InlineLinkPatched(k, i) ==
    LET m == LinkIndex(tree, tree.Fields[k].Tag, i)
    IN  /\ CountSlot(wres.w.buf, tree.Order, HeaderSize, k) = NodeSize(tree.SubIFDs[m].Node)
        /\ ValueSlot(wres.w.buf, tree.Order, HeaderSize, k) = SubPos(m)
        /\ CountSlot(wres.w.buf, tree.Order, HeaderSize, k) >= 5

PointerLinkPatched(k, i) ==
    /\ CountSlot(wres.w.buf, tree.Order, HeaderSize, k) = N32(tree.Fields[k].Count)
    /\ StoredPointer(wres.w.buf, tree, HeaderSize, k, i)
          = SubPos(LinkIndex(tree, tree.Fields[k].Tag, i))

LinkPatched(k, i) ==
    /\ TypeSize(tree.Fields[k].Type) = 1 => InlineLinkPatched(k, i)
    /\ TypeSize(tree.Fields[k].Type) = 4 => PointerLinkPatched(k, i)

\* C26: in the written entry of a single-byte (UNDEFINED) field that
\* introduces a sub-IFD the count slot holds the size of the written
\* sub-tree, which is at least 5, and the value slot its position; a pointer
\* field of a 4-byte type keeps its count and its i-th value is the position
\* of the i-th sub-IFD of its tag.
SubIFDPatching ==
    PutDone /\ wres.st = "ok" =>
       \A k \in 1..Len(tree.Fields) :
          \A i \in 1..Len(LinksOf(tree, tree.Fields[k].Tag)) : LinkPatched(k, i)

\* The same for the fields that Put is meant to accept: an UNDEFINED field
\* with a single sub-IFD, and pointer fields.
SingleLinkPatching ==
    ~UndefinedWithLinks => SubIFDPatching


(***************************************************************************)
(* The regions of the root in the output, each a pair of its first         *)
(* position and the position after its last, found from the output: the    *)
(* table at HeaderSize, the segments at the offsets their offset field     *)
(* holds, the external data at the offsets in the value slots, the         *)
(* sub-IFDs at the positions of their Put calls and the next IFD at the    *)
(* position the tail of the table holds.                                   *)
(***************************************************************************)
Region(start, size) == <<start, start + size>>

RECURSIVE Flatten(_)
Flatten(q) == IF q = <<>> THEN <<>> ELSE Head(q) \o Flatten(Tail(q))

SegmentRegions(buf, node, pos) ==
    Flatten([i \in 1..Len(node.ImageData) |->
                [j \in 1..Len(node.ImageData[i].Segments) |->
                    Region(StoredValue(buf, node, pos,
                                       FieldOf(node, node.ImageData[i].OffsetTag), j),
                           Len(node.ImageData[i].Segments[j]))]])

\* Field k has its data outside the table.
IsExternal(node, k) ==
    /\ N32(FieldSize(node.Fields[k])) > 4
    /\ ~(node.Fields[k].Type = UNDEFINED /\ Len(LinksOf(node, node.Fields[k].Tag)) > 0)

DataRegions(buf, node, pos) ==
    Flatten([k \in 1..Len(node.Fields) |->
                IF IsExternal(node, k)
                THEN <<Region(ValueSlot(buf, node.Order, pos, k),
                              N32(FieldSize(node.Fields[k])))>>
                ELSE <<>>])

SubRegions(node) ==
    [m \in 1..Len(node.SubIFDs) |-> Region(SubPos(m), NodeSize(node.SubIFDs[m].Node))]

\* The pointer in the tail of the table at pos.
Tail32(buf, node, pos) == N32(Uint32(node.Order, buf, pos + 2 + 12 * Len(node.Fields)))

NextRegion(buf, node, pos) ==
    IF node.Next = <<>> THEN <<>>
    ELSE <<Region(Tail32(buf, node, pos), NodeSize(node.Next[1]))>>

Regions(buf, node, pos) ==
    <<Region(pos, IFDSize(node))>> \o SegmentRegions(buf, node, pos)
       \o DataRegions(buf, node, pos) \o SubRegions(node) \o NextRegion(buf, node, pos)

\* The regions follow one another without overlap, within the buffer.
InOrder(rs, len) ==
    /\ \A r \in 1..Len(rs) : rs[r][1] < rs[r][2] /\ rs[r][2] <= len
    /\ \A r \in 1..(Len(rs) - 1) : rs[r][2] <= rs[r + 1][1]

\* The table at pos is the table of the node: its entry count and its tags.
TableOf(buf, node, pos) ==
    /\ pos + IFDSize(node) <= Len(buf)
    /\ Uint16(node.Order, buf, pos) = Len(node.Fields)
    /\ \A k \in 1..Len(node.Fields) :
          Uint16(node.Order, buf, pos + 2 + 12 * (k - 1)) = node.Fields[k].Tag

\* What was written into the regions is still there: the tables, the
\* segments, and the data of the fields that are neither offsets nor links.
Intact(buf, node, pos) ==
    /\ TableOf(buf, node, pos)
    /\ \A i \in 1..Len(node.ImageData) :
          \A j \in 1..Len(node.ImageData[i].Segments) : Relocated(buf, node, pos, i, j)
    /\ \A k \in 1..Len(node.Fields) :
          IsExternal(node, k) /\ LinksOf(node, node.Fields[k].Tag) = <<>>
             /\ node.Fields[k].Tag # StripOffsets =>
                SubSeq(buf, ValueSlot(buf, node.Order, pos, k) + 1,
                       ValueSlot(buf, node.Order, pos, k) + N32(FieldSize(node.Fields[k])))
                   = node.Fields[k].Data
    /\ \A m \in 1..Len(node.SubIFDs) : TableOf(buf, node.SubIFDs[m].Node, SubPos(m))
    /\ node.Next # <<>> => TableOf(buf, node.Next[1], Tail32(buf, node, pos))

\* C25: in the output of PutIFDTree the table of a node, its segments, its
\* external field data, its sub-IFD trees in link order and its next tree
\* lie in that order and do not overlap, and no later write has changed
\* what was written into them.
WriteLayout ==
    PutDone /\ wres.st = "ok" =>
       /\ InOrder(Regions(wres.w.buf, tree, HeaderSize), Len(wres.w.buf))
       /\ Intact(wres.w.buf, tree, HeaderSize)

\* A node with strips, external data, two sub-IFDs and a next IFD is written.
WriteLayoutWitness ==
    /\ PutDone /\ wres.st = "ok"
    /\ Len(tree.ImageData) = 1
    /\ \E k \in 1..Len(tree.Fields) : tree.Fields[k].Tag = Make
    /\ Len(tree.SubIFDs) = 2
    /\ tree.Next # <<>>
    /\ Len(Regions(wres.w.buf, tree, HeaderSize)) >= 8


(***************************************************************************)
(* GetIFD on a buffer that ends early.  The buffer is a serialized tree    *)
(* without its last bytes, as it is or with the four bytes of the first    *)
(* entry's value slot set to 0xFF, so that an offset there is past any     *)
(* buffer and the end of its data wraps around; GetIFD reads the IFD at    *)
(* HeaderSize.                                                             *)
(***************************************************************************)
\* At most this many bytes are missing at the end of the buffer.
MaxMissing == 6

ShortTrees == {"odd", "strips", "oddmix"}

ReadInit ==
    /\ \E name \in ShortTrees, o \in Orders, cut \in 0..MaxMissing, high \in BOOLEAN :
          LET buf == Serialized(TreeOf(name, o)).w.buf
              kept == SubSeq(buf, 1, Len(buf) - cut)
          IN  /\ pbuf = IF high THEN Store(kept, HeaderSize + 2 + 8, <<255, 255, 255, 255>>)
                        ELSE kept
              /\ call = [kind |-> "GetIFD", order |-> o, pos |-> HeaderSize]
    /\ tree = <<>>
    /\ wres = NoCall
    /\ edits = <<>>
    /\ pc = "idle"
    /\ ctx = NoContext
    /\ outer = <<>>
    /\ stack = <<>>
    /\ hist = NoHistory
    /\ pres = NoCall
    /\ HeaderIdle
    /\ DataIdle

IFDWasRead(r) ==
    pres' = [kind |-> "GetIFD", panic |-> r.panic, err |-> r.err, ifd |-> r.ifd]

GetIFDAct ==
    /\ pc = "idle"
    /\ call.kind = "GetIFD"
    /\ IFDWasRead(GetIFD(pbuf, call.order, U32(call.pos), TIFFImageData, FALSE))
    /\ pc' = "done"
    /\ UNCHANGED <<tree, wres, edits, pbuf, ctx, outer, stack, call, hist, hdrVars, dataVars>>

ReadNext == GetIFDAct

SpecRead == ReadInit /\ [][ReadNext]_vars

GetIFDDone == pc = "done" /\ pres.kind = "GetIFD"

\* q + s is past len, computed without wrap-around (len is below 65536).
PastEnd(q, s, len) == q[1] # 0 \/ s[1] # 0 \/ q[2] + s[2] > len

\* The out-of-line entries of the table at pos lie in the buffer.
EntriesInRange(buf, order, pos) ==
    \A k \in 1..Uint16(order, buf, pos) :
        LET e == EntryAt(buf, order, pos + 2 + 12 * (k - 1))
        IN  Gt32N(Mul32(TypeSize(e.Type), e.Count), 4) =>
               ~PastEnd(e.word, Mul32(TypeSize(e.Type), e.Count), Len(buf))

\* The segments of the IFD that GetIFD returned lie in the buffer.
SegmentsInRange(buf, ifd) ==
    \A i \in 1..Len(ifd.ImageData) :
        LET of == ifd.Fields[FieldOf(ifd, ifd.ImageData[i].OffsetTag)]
        IN  \A j \in 1..Len(ifd.ImageData[i].Segments) :
               ~PastEnd(AnyIntegerU32(of, j - 1, ifd.Order).val,
                        U32(Len(ifd.ImageData[i].Segments[j])), Len(buf))

\* C23: the reader never reads or slices the buffer past its end, and it
\* accepts an out-of-line field or a segment of size s at offset q only when
\* q + s, computed without wrap-around, is at most the length of the buffer.
ReaderBounds ==
    GetIFDDone =>
       /\ ~pres.panic
       /\ pres.err = <<>> =>
             /\ EntriesInRange(pbuf, call.order, call.pos)
             /\ SegmentsInRange(pbuf, pres.ifd)

\* Apart from the panic the tests are right: what is accepted is in range,
\* and an IFD whose data and segments are in range is accepted.
ReaderBoundsWithoutPanic ==
    GetIFDDone /\ ~pres.panic =>
       /\ pres.err = <<>> =>
             /\ EntriesInRange(pbuf, call.order, call.pos)
             /\ SegmentsInRange(pbuf, pres.ifd)


(***************************************************************************)
(* Field data and the input buffer.  GetIFD leaves in every field a slice  *)
(* of the buffer it read (fields[i].Data = buf[dataPos : dataPos+size])    *)
(* and getImageData in every segment a slice too, so a byte written into   *)
(* the buffer later is a byte written into the tree.  Here a field has,    *)
(* besides its data, the position At of its data in the buffer, -1 when    *)
(* it is a slice of its own (PutASCII and Fix reallocate with make), and   *)
(* an ImageData the positions SegAt of its segments.  A caller reads the   *)
(* IFD at HeaderSize of a file, edits it with Fix and PutASCII, writes     *)
(* into the buffer it read from and serializes the node.                   *)
(***************************************************************************)
MakeUnterminated == Fld(Make, ASCII, 5, <<97, 98, 99, 100, 101>>)

ParsedFiles(o) ==
    {Serialized(t).w.buf :
        t \in {TreeOf("odd", o), TreeOf("strips", o),
               TIFFNode(o, TIFFSpace, <<CompressionField(o, 1), MakeUnterminated>>,
                        <<>>, <<>>, <<>>)}}

\* dataPos of entry k of the table at pos.
DataPos(buf, order, pos, k) ==
    LET e == EntryAt(buf, order, pos + 2 + 12 * (k - 1))
    IN  IF Gt32N(Mul32(TypeSize(e.Type), e.Count), 4) THEN N32(e.word)
        ELSE pos + 2 + 12 * (k - 1) + 8

\* The IFD GetIFD returned, as a node whose data are slices of buf.
Sliced(buf, order, pos, ifd) ==
    LET fields == [k \in 1..Len(ifd.Fields) |->
                      [Tag |-> ifd.Fields[k].Tag, Type |-> ifd.Fields[k].Type,
                       Count |-> ifd.Fields[k].Count, Data |-> ifd.Fields[k].Data,
                       At |-> DataPos(buf, order, pos, k)]]
        segAt(id) == [j \in 1..Len(id.Segments) |->
                         N32(AnyIntegerU32(ifd.Fields[FieldOf(ifd, id.OffsetTag)], j - 1,
                                           order).val)]
        images == [i \in 1..Len(ifd.ImageData) |->
                      [OffsetTag |-> ifd.ImageData[i].OffsetTag,
                       SizeTag |-> ifd.ImageData[i].SizeTag,
                       Segments |-> ifd.ImageData[i].Segments,
                       SegAt |-> segAt(ifd.ImageData[i])]]
    IN  TIFFNode(order, TIFFSpace, fields, images, <<>>, <<>>)

\* The node as it is once buf holds other bytes: what is a slice of the
\* buffer shows the bytes of the buffer.
Aliased(node, buf) ==
    [node EXCEPT
        !.Fields = [k \in 1..Len(node.Fields) |->
                       IF node.Fields[k].At < 0 THEN node.Fields[k]
                       ELSE [node.Fields[k] EXCEPT
                                !.Data = SubSeq(buf, node.Fields[k].At + 1,
                                                node.Fields[k].At + Len(node.Fields[k].Data))]],
        !.ImageData = [i \in 1..Len(node.ImageData) |->
                          [node.ImageData[i] EXCEPT
                              !.Segments = [j \in 1..Len(node.ImageData[i].Segments) |->
                                  SubSeq(buf, node.ImageData[i].SegAt[j] + 1,
                                         node.ImageData[i].SegAt[j]
                                            + Len(node.ImageData[i].Segments[j]))]]]]

\* Fix gives a field new data when it promotes it (the type changes) and
\* when it terminates it (the count changes); was is the field before Fix.
Reallocated(was, f) == f.Type # was.Type \/ f.Count # was.Count

\* A Fix after which every field has data of its own.
FixOwningAll(node, fields) == [k \in 1..Len(fields) |-> [fields[k] EXCEPT !.At = -1]]

\* The fields Fix leaves, with the data Fix made marked as the field's own.
FixOwning(node, fields) ==
    [k \in 1..Len(fields) |->
        IF Reallocated(node.Fields[FieldOf(node, fields[k].Tag)], fields[k])
        THEN [fields[k] EXCEPT !.At = -1]
        ELSE fields[k]]

OwnInit ==
    /\ \E o \in Orders : pbuf \in ParsedFiles(o)
    /\ tree = <<>>
    /\ wres = NoCall
    /\ edits = <<>>
    /\ pc = "idle"
    /\ ctx = NoContext
    /\ outer = <<>>
    /\ stack = <<>>
    /\ call = NoCall
    /\ hist = NoHistory
    /\ pres = NoCall
    /\ HeaderIdle
    /\ DataIdle

\* GetHeader and GetIFD at the position it gives.
ReadIFDAct ==
    /\ pc = "idle"
    /\ tree = <<>>
    /\ LET order == GetHeader(pbuf).order
           r == GetIFD(pbuf, order, U32(HeaderSize), TIFFImageData, FALSE)
       IN  /\ ~r.panic /\ r.err = <<>>
           /\ tree' = Sliced(pbuf, order, HeaderSize, r.ifd)
    /\ pc' = "parsed"
    /\ UNCHANGED <<wres, edits, pbuf, ctx, outer, stack, call, hist, pres, hdrVars, dataVars>>

Edited(op) == \E k \in 1..Len(edits) : edits[k].op = op

OwnFixAct ==
    /\ pc = "parsed"
    /\ ~Edited("Fix") /\ ~Edited("Write")
    /\ LET r == IFDFix(tree, TIFFImageData)
       IN  /\ ~r.panic
           /\ tree' = [tree EXCEPT !.Fields = FixOwning(tree, r.fields)]
    /\ edits' = Append(edits, [op |-> "Fix", before |-> tree])
    /\ UNCHANGED <<wres, pbuf, pc, ctx, outer, stack, call, hist, pres, hdrVars, dataVars>>

\* PutASCII of a text as long as the one the field holds.
OwnPutASCIIAct ==
    /\ pc = "parsed"
    /\ ~Edited("PutASCII") /\ ~Edited("Write")
    /\ \E k \in 1..Len(tree.Fields) :
          /\ tree.Fields[k].Type = ASCII
          /\ tree' = [tree EXCEPT
                         !.Fields[k].Data =
                             PutASCII(tree.Fields[k],
                                      [n \in 1..(Len(tree.Fields[k].Data) - 1) |-> 122]).Data,
                         !.Fields[k].At = -1]
          /\ edits' = Append(edits, [op |-> "PutASCII", before |-> tree, k |-> k])
    /\ UNCHANGED <<wres, pbuf, pc, ctx, outer, stack, call, hist, pres, hdrVars, dataVars>>

\* The caller writes a byte into the buffer the tree was read from.
WriteBufferAct ==
    /\ pc = "parsed"
    /\ edits # <<>> /\ ~Edited("Write")
    /\ \E p \in 0..(Len(pbuf) - 1) :
          /\ pbuf' = Store(pbuf, p, <<255 - At(pbuf, p)>>)
          /\ tree' = Aliased(tree, pbuf')
          /\ edits' = Append(edits, [op |-> "Write", before |-> tree, k |-> p])
    /\ UNCHANGED <<wres, pc, ctx, outer, stack, call, hist, pres, hdrVars, dataVars>>

OwnPutAct ==
    /\ pc = "parsed"
    /\ wres' = Serialized(tree)
    /\ pc' = "written"
    /\ UNCHANGED <<tree, edits, pbuf, ctx, outer, stack, call, hist, pres, hdrVars, dataVars>>

OwnNext == ReadIFDAct \/ OwnFixAct \/ OwnPutASCIIAct \/ WriteBufferAct \/ OwnPutAct

SpecOwn == OwnInit /\ [][OwnNext]_vars

\* The tree as it was before the caller wrote into the buffer.
BeforeWrite == edits[CHOOSE k \in 1..Len(edits) : edits[k].op = "Write"].before

\* The field PutASCII was called on.
TextField == edits[CHOOSE k \in 1..Len(edits) : edits[k].op = "PutASCII"].k

\* The bytes the output holds for the data of field k of the root.
WrittenData(out, node, k) ==
    LET at == IF N32(FieldSize(node.Fields[k])) <= 4
              THEN HeaderSize + 2 + 12 * (k - 1) + 8
              ELSE ValueSlot(out, node.Order, HeaderSize, k)
    IN  SubSeq(out, at + 1, at + N32(FieldSize(node.Fields[k])))

\* C22: after PutASCII on a field and after Fix on a parsed tree the data
\* of the tree is its own: a byte written into the input buffer afterwards
\* changes no byte that PutIFDTree then writes for the tree.
OwnedData ==
    pc = "written" /\ Edited("Write") =>
       /\ Edited("Fix") => wres.w.buf = Serialized(BeforeWrite).w.buf
       /\ Edited("PutASCII") =>
             WrittenData(wres.w.buf, tree, TextField)
                = WrittenData(Serialized(BeforeWrite).w.buf, BeforeWrite, TextField)

\* What holds: the data PutASCII and Fix made is not touched by the write.
OwnedWhereReallocated ==
    pc = "written" /\ Edited("Write") =>
       /\ \A k \in 1..Len(tree.Fields) :
             tree.Fields[k].At < 0 =>
                WrittenData(wres.w.buf, tree, k)
                   = WrittenData(Serialized(BeforeWrite).w.buf, BeforeWrite, k)
       /\ Edited("PutASCII") => tree.Fields[TextField].At < 0

=============================================================================
